---- MODULE Spec2Model ----
(***************************************************************************)
(* A model of ant-router: the SSE stream translator (convert_stream), the  *)
(* rule router (resolve_via_rules), the /v1/messages handler               *)
(* (handle_messages) with its upstream executor, the tool enforcer         *)
(* middleware, the SSE wire parser (parse_sse_stream), the request         *)
(* translator (convert_request), the body the handler sends upstream, the  *)
(* tool filter middleware and the system prompt patcher middleware.        *)
(*                                                                         *)
(* Strings that the code inspects character by character (model aliases,   *)
(* glob patterns, wire model ids) are sequences of one-character strings.  *)
(* Text fragments of a stream, whose content the code never inspects        *)
(* beyond is_empty(), are integers: None is -1, the empty string is 0 and  *)
(* a non-empty fragment is a positive number that names the chunk and the  *)
(* field it arrived in.                                                    *)
(***************************************************************************)
EXTENDS Integers, Sequences, FiniteSets, TLC

VARIABLES
    \* ---- convert_stream (src/src/transformer/response.rs) ----
    state,        \* StreamState: block_index, active_block_type, open_block_indices, tool_index_map
    first_chunk,  \* the first_chunk flag
    chunks,       \* the upstream items polled so far, in order
    out,          \* the events yielded so far, in order
    spc,          \* position of the generator: "idle", "polling", "failed", "done"
    middlewares,  \* the middlewares handle_messages composed for the request
    client,       \* the SSE events sent to the client so far, in order
    \* ---- handle_messages (src/src/handlers.rs) ----
    config,       \* the frozen Config: no_ant, current_profile, profiles, models
    payload,      \* the inbound request: model, thinking, has_images, stream
    hpc,          \* position of the handler: "idle", "received", "dispatched", "done"
    route,        \* what the handler resolved: rule, target_logical_id, wire_model
    exec,         \* execute_upstream_request: attempts, context_length_retries,
                  \* and the milliseconds of every tokio::time::sleep, in order
    upstream_posts, \* number of POSTs sent to the upstream for this request
    upstream_replies, \* what every POST met, in order
    response,     \* the HTTP status answered to the client (0: none yet)
    response_body, \* what the answer's body is
    \* ---- the middleware hooks (src/src/middleware) ----
    mw,           \* a request and its response on their way through on_request
                  \* and on_response: pc, req_in, req, resp_in, resp
    enforcer,     \* ToolEnforcerMiddleware::transform_stream: pc, its State, the
                  \* events polled and, for each, the events yielded for it
    \* ---- parse_sse_stream (src/src/handlers.rs) ----
    sse,          \* pc, the bytes received, the buffer, the chunks yielded
    \* ---- convert_request (src/src/transformer/request.rs) ----
    conv,         \* pc, the request and the model's configuration given, the
                  \* request after preprocessing, the upstream request built
    \* ---- "Prepare Body" of handle_messages (src/src/handlers.rs) ----
    prep,         \* pc, the serialized request, extra_body, final_body
    \* ---- ToolFilterMiddleware (src/src/middleware/tool_filter.rs) ----
    filter,       \* pc, the filter's config, the request given, the request left
    \* ---- SystemPromptPatcherMiddleware (src/src/middleware/system_prompt.rs) ----
    patcher,      \* pc, the rules, the request given, the request left, and for
                  \* every rule the buffer it met, whether it matched and the
                  \* buffer it left
    \* ---- Config::resolve_models (src/src/config.rs) ----
    loader,       \* pc, the models table as parsed, the outcome for every key
    \* ---- deep_merge_json (src/src/config.rs) ----
    merge,        \* pc, base, override, merged
    \* ---- report_tools_once (src/src/handlers.rs) ----
    latch,        \* pc, tools_reported, every handler's position and what it
                  \* loaded or swapped, the handlers that emitted the report
    \* ---- the on_request chain of handle_messages (src/src/handlers.rs) ----
    chain,        \* pc, the filter's config, the request given, the request left
    \* ---- record_stream (src/src/transformer/response.rs) ----
    recorder      \* pc, the items to come, the items yielded, the accumulator,
                  \* the calls of record_interaction

streamVars == <<state, first_chunk, chunks, out, spc, middlewares, client>>
handlerVars == <<config, payload, hpc, route, exec, upstream_posts, upstream_replies,
                 response, response_body>>
middlewareVars == <<mw, enforcer>>
sseVars == <<sse>>
convertVars == <<conv>>
hookVars == <<prep, filter, patcher>>
utilVars == <<loader, merge, latch, chain, recorder>>
vars == <<state, first_chunk, chunks, out, spc, middlewares, client,
          config, payload, hpc, route, exec, upstream_posts, upstream_replies,
          response, response_body, mw, enforcer, sse, conv, prep, filter, patcher,
          loader, merge, latch, chain, recorder>>

\* Option::None for fragments and indices, and the empty string.
None == -1
Empty == 0

(***************************************************************************)
(* Bounds of the model.                                                    *)
(***************************************************************************)
\* upstream items (chunks or an error) polled in one streamed response
MaxChunks == 3
\* populated fields (reasoning, content, tool-call entries, finish_reason,
\* usage) over all the chunks of one streamed response
MaxInput == 3
\* entries of one chunk's delta.tool_calls array
MaxToolCalls == 1
\* rules of the profile the router is checked on
MaxRules == 2
\* tools of a request given to the middleware hooks
MaxTools == 2
\* content blocks of a response given to the middleware hooks
MaxBlocks == 2
\* events of a stream given to transform_stream
MaxEvents == 5
\* bytes of an upstream body given to parse_sse_stream
MaxBytes == 8
\* bytes of one network chunk of that body
MaxSegment == 3
\* bytes of multi-byte codepoints in that body
MaxWide == 2
\* messages of a request given to convert_request
MaxMessages == 2
\* content blocks of those messages taken together
MaxContent == 2
\* max_tokens, budgets and caps of a request and its configuration
MaxTokenCount == 2
\* patterns of an allow list or a deny list of the tool filter
MaxPatterns == 2
\* rules of a system prompt patcher
MaxPromptRules == 2
\* actions of all the rules of a system prompt patcher together
MaxActions == 2
\* models of the models table
MaxModels == 4
\* request handlers running at the same time
MaxHandlers == 3
\* items of the stream handed to record_stream
MaxItems == 4

\* upstream tool_calls[].index values
ToolIndices == {0, 1}
\* upstream finish_reason values
FinishReasons == {"stop", "tool_calls"}
\* tool names: the exit tool of ToolEnforcerMiddleware and a tool of the client
ExitTool == "ExitTool"
ToolNames == {ExitTool, "t"}

(***************************************************************************)
(* Upstream chunks (OpenAIChatCompletionChunk, src/src/protocol.rs).       *)
(***************************************************************************)
\* delta.reasoning and delta.reasoning_content, as the upstream spells them
ReasoningPairs ==
    {<<None, None>>, <<1, None>>, <<None, 1>>, <<Empty, 1>>}

\* delta.content
Contents == {None, Empty, 1}

\* OpenAIChunkToolCall: upstream index, optional id, optional function with
\* optional name ("" for none) and optional arguments; the entry that
\* carries the id carries the name
ToolCallChunks ==
    {tc \in [index : ToolIndices, id : {None, 1},
             function : {[present |-> FALSE, arguments |-> None, name |-> ""]}
                        \cup [present : {TRUE}, arguments : {Empty, 1},
                              name : ToolNames \cup {""}]] :
        /\ tc.id # None \/ tc.function.arguments = 1
        /\ tc.function.name # "" <=> (tc.id # None /\ tc.function.present)}

\* delta.tool_calls: absent, or an array of at most MaxToolCalls entries
ToolCallArrays ==
    {[present |-> FALSE, calls |-> <<>>]} \cup
    {[present |-> TRUE, calls |-> cs] :
        cs \in UNION {[1..k -> ToolCallChunks] : k \in 0..MaxToolCalls}}

\* The chunks before their fragments are given their texts: 1 marks a
\* non-empty fragment.
ChunkShapes ==
    {[choices |-> <<[delta |-> [reasoning |-> rp[1], reasoning_content |-> rp[2],
                                content |-> c, tool_calls |-> tcs],
                     finish_reason |-> f]>>,
      usage |-> u, error |-> FALSE] :
        rp \in ReasoningPairs, c \in Contents, tcs \in ToolCallArrays,
        f \in FinishReasons \cup {"None"}, u \in BOOLEAN}
    \cup {[choices |-> <<>>, usage |-> u, error |-> FALSE] : u \in BOOLEAN}

\* How many fields of a chunk are populated.
B2N(b) == IF b THEN 1 ELSE 0

DeltaWeight(d) ==
    B2N(d.reasoning # None \/ d.reasoning_content # None)
    + B2N(d.content # None)
    + (IF d.tool_calls.present
       THEN (IF Len(d.tool_calls.calls) = 0 THEN 1 ELSE Len(d.tool_calls.calls))
       ELSE 0)

Weight(ch) ==
    B2N(ch.usage)
    + (IF Len(ch.choices) = 0 THEN 0
       ELSE DeltaWeight(ch.choices[1].delta)
            + B2N(ch.choices[1].finish_reason # "None"))

ShapesByWeight == [w \in 0..MaxInput |-> {ch \in ChunkShapes : Weight(ch) = w}]

\* The text of the fragment in slot k of the n-th chunk.
Tag(v, n, k) == IF v > 0 THEN 10 * n + k ELSE v

TagCall(tc, n, j) ==
    [tc EXCEPT !.function.arguments = Tag(@, n, 3 + j)]

\* The n-th chunk of the stream with shape sh.
Materialize(sh, n) ==
    IF Len(sh.choices) = 0 THEN sh
    ELSE LET ch == sh.choices[1]
             d == ch.delta
         IN [sh EXCEPT !.choices =
                <<[ch EXCEPT !.delta =
                    [reasoning |-> Tag(d.reasoning, n, 1),
                     reasoning_content |-> Tag(d.reasoning_content, n, 2),
                     content |-> Tag(d.content, n, 3),
                     tool_calls |->
                        [present |-> d.tool_calls.present,
                         calls |-> [j \in 1..Len(d.tool_calls.calls) |->
                                       TagCall(d.tool_calls.calls[j], n, j)]]]]>>]

\* The upstream error item (Err(e) of the chunk stream).
ErrItem == [choices |-> <<>>, usage |-> FALSE, error |-> TRUE]

(***************************************************************************)
(* Anthropic stream events (AnthropicStreamEvent).  index is None where    *)
(* the event has none; kind is the block type of a content_block_start,    *)
(* the delta type of a content_block_delta and the stop_reason of a        *)
(* message_delta ("None" when it carries none); payload is the text of a   *)
(* delta and, for a message_delta, 1 when it carries the chunk's usage;    *)
(* name is the tool name of a tool_use content_block_start.                *)
(***************************************************************************)
Ev(t, i, k, p) == [type |-> t, index |-> i, kind |-> k, payload |-> p, name |-> ""]

MessageStart == Ev("message_start", None, "", None)
Ping == Ev("ping", None, "", None)
ContentBlockStart(i, block) == Ev("content_block_start", i, block, None)
ToolUseStart(i, name) == [ContentBlockStart(i, "tool_use") EXCEPT !.name = name]
ContentBlockDelta(i, delta, text) == Ev("content_block_delta", i, delta, text)
ContentBlockStop(i) == Ev("content_block_stop", i, "", None)
MessageDelta(stop_reason, usage) == Ev("message_delta", None, stop_reason, usage)
MessageStop == Ev("message_stop", None, "", None)
ErrorEvent == Ev("error", None, "", None)

(***************************************************************************)
(* convert_stream.  A translator configuration c is [st, out]: the         *)
(* StreamState and the events yielded so far.  Each part of the chunk      *)
(* handler maps a configuration to the set of configurations it can        *)
(* leave: HashSet::drain() yields the open indices in an arbitrary order.  *)
(***************************************************************************)
InitialStreamState ==
    [block_index |-> 0,
     active_block_type |-> "None",
     open_block_indices |-> {},
     tool_index_map |-> [i \in ToolIndices |-> None]]

\* Every order in which drain() can yield the members of S.
DrainOrders(S) ==
    {p \in [1..Cardinality(S) -> S] :
        \A i, j \in 1..Cardinality(S) : i # j => p[i] # p[j]}

\* for idx in state.open_block_indices.drain() { yield ContentBlockStop }
CloseOpenBlocks(c) ==
    {[st |-> [c.st EXCEPT !.open_block_indices = {}],
      out |-> c.out \o [k \in 1..Len(p) |-> ContentBlockStop(p[k])]] :
        p \in DrainOrders(c.st.open_block_indices)}

\* The block a transition opens takes the index the translator stands at.
EmitInBlockSameIndex(c, btype, block, delta, text) ==
    IF c.st.active_block_type # btype
    THEN {[st |-> [d.st EXCEPT !.active_block_type = btype,
                               !.open_block_indices = {d.st.block_index}],
           out |-> d.out \o <<ContentBlockStart(d.st.block_index, block),
                              ContentBlockDelta(d.st.block_index, delta, text)>>] :
            d \in CloseOpenBlocks(c)}
    ELSE {[c EXCEPT !.out = @ \o <<ContentBlockDelta(c.st.block_index, delta, text)>>]}

\* The transition into a thinking or a text block, and the delta.
EmitInBlock(c, btype, block, delta, text) ==
    IF c.st.active_block_type # btype
    THEN {LET idx == IF d.st.active_block_type # "None"
                     THEN d.st.block_index + 1 ELSE d.st.block_index
          IN [st |-> [d.st EXCEPT !.block_index = idx,
                                  !.active_block_type = btype,
                                  !.open_block_indices = {idx}],
              out |-> d.out \o <<ContentBlockStart(idx, block),
                                 ContentBlockDelta(idx, delta, text)>>] :
            d \in CloseOpenBlocks(c)}
    ELSE {[c EXCEPT !.out = @ \o <<ContentBlockDelta(c.st.block_index, delta, text)>>]}

\* delta.reasoning.as_deref().or(delta.reasoning_content.as_deref())
ReasoningOf(delta) ==
    IF delta.reasoning # None THEN delta.reasoning ELSE delta.reasoning_content

\* 1. Handle Reasoning (Thinking)
HandleReasoning(c, delta) ==
    LET r_text == ReasoningOf(delta)
    IN IF r_text # None /\ r_text # Empty
       THEN EmitInBlock(c, "Thinking", "thinking", "thinking_delta", r_text)
       ELSE {c}

\* 2. Handle Text Content
HandleText(c, delta) ==
    IF delta.content # None /\ delta.content # Empty
    THEN EmitInBlock(c, "Text", "text", "text_delta", delta.content)
    ELSE {c}

\* The body of `for tc in tool_calls`, for one entry.
HandleToolCall(c, tc) ==
    LET c1 == IF tc.id # None
              THEN [st |-> [c.st EXCEPT
                              !.tool_index_map[tc.index] = c.st.block_index,
                              !.open_block_indices = @ \cup {c.st.block_index},
                              !.block_index = @ + 1],
                    out |-> c.out \o <<ToolUseStart(c.st.block_index, tc.function.name)>>]
              ELSE c
        anthropic_idx == c1.st.tool_index_map[tc.index]
    IN IF tc.function.present /\ tc.function.arguments # None /\ anthropic_idx # None
       THEN [c1 EXCEPT !.out = @ \o <<ContentBlockDelta(anthropic_idx, "input_json_delta",
                                                         tc.function.arguments)>>]
       ELSE c1

RECURSIVE ToolCallLoop(_, _, _)
ToolCallLoop(c, calls, k) ==
    IF k > Len(calls) THEN c
    ELSE ToolCallLoop(HandleToolCall(c, calls[k]), calls, k + 1)

\* 3. Handle Tool Calls
HandleToolCalls(c, delta) ==
    IF ~delta.tool_calls.present THEN {c}
    ELSE LET entered ==
                 IF c.st.active_block_type # "ToolUse"
                 THEN IF c.st.active_block_type # "None"
                      THEN {[d EXCEPT !.st.block_index = @ + 1,
                                      !.st.active_block_type = "ToolUse"] :
                                d \in CloseOpenBlocks(c)}
                      ELSE {[c EXCEPT !.st.active_block_type = "ToolUse"]}
                 ELSE {c}
         IN {ToolCallLoop(e, delta.tool_calls.calls, 1) : e \in entered}

\* match finish.as_str() { ... }
StopReasonOf(finish) ==
    CASE finish = "tool_calls" -> "tool_use"
      [] finish = "stop" -> "end_turn"
      [] finish = "length" -> "max_tokens"
      [] OTHER -> "end_turn"

\* 4. Handle Finish Reason
HandleFinish(c, choice) ==
    IF choice.finish_reason = "None" THEN {c}
    ELSE {[d EXCEPT !.out = @ \o <<MessageDelta(StopReasonOf(choice.finish_reason), None)>>] :
            d \in CloseOpenBlocks(c)}

\* if let Some(choice) = chunk.choices.first() { 1. 2. 3. 4. }
HandleChoice(c, chunk) ==
    IF Len(chunk.choices) = 0 THEN {c}
    ELSE LET choice == chunk.choices[1]
             delta == choice.delta
         IN UNION {HandleFinish(c3, choice) :
                c3 \in UNION {HandleToolCalls(c2, delta) :
                    c2 \in UNION {HandleText(c1, delta) :
                        c1 \in HandleReasoning(c, delta)}}}

\* Handle Usage in last chunk
HandleUsage(c, chunk) ==
    IF chunk.usage THEN [c EXCEPT !.out = @ \o <<MessageDelta("None", 1)>>] ELSE c

\* Initialize on first chunk
HandleFirstChunk(c, first) ==
    IF first THEN [c EXCEPT !.out = @ \o <<MessageStart, Ping>>] ELSE c

\* The Ok(chunk) arm of the loop body.
ProcessChunk(c, first, chunk) ==
    {HandleUsage(d, chunk) : d \in HandleChoice(HandleFirstChunk(c, first), chunk)}

(***************************************************************************)
(* The streamed response as a state machine: one action per item polled    *)
(* from the upstream chunk stream.  The chunk stream is parse_sse_stream,  *)
(* a try_stream!: after it has yielded an Err it yields nothing more.      *)
(***************************************************************************)
RECURSIVE InputWeight(_)
InputWeight(items) ==
    IF Len(items) = 0 THEN 0
    ELSE Weight(items[Len(items)]) + InputWeight(SubSeq(items, 1, Len(items) - 1))

\* The middleware hooks while none is modelled.
MiddlewareIdle == mw = [pc |-> "idle"] /\ enforcer = [pc |-> "idle"]

\* The SSE parser while none is modelled.
SseIdle == sse = [pc |-> "idle"]

\* The request translator while none is modelled.
ConvertIdle == conv = [pc |-> "idle"]

\* The body preparation and the hooks of the tool filter and of the system
\* prompt patcher while none is modelled.
HooksIdle ==
    /\ prep = [pc |-> "idle"]
    /\ filter = [pc |-> "idle"]
    /\ patcher = [pc |-> "idle"]

UtilIdle ==
    /\ loader = [pc |-> "idle"]
    /\ merge = [pc |-> "idle"]
    /\ latch = [pc |-> "idle"]
    /\ chain = [pc |-> "idle"]
    /\ recorder = [pc |-> "idle"]

\* The handler's variables while no request is modelled.
HandlerIdle ==
    /\ config = [no_ant |-> FALSE, current_profile |-> <<"d">>,
                 profiles |-> [p \in {<<"d">>} |-> <<>>],
                 models |-> [m \in {} |-> <<>>]]
    /\ payload = [model |-> <<>>, thinking |-> FALSE, has_images |-> FALSE, stream |-> FALSE]
    /\ hpc = "idle"
    /\ route = [rule |-> 0, target_logical_id |-> <<>>, wire_model |-> <<>>]
    /\ exec = [attempts |-> 0, context_length_retries |-> 0, sleeps |-> <<>>]
    /\ upstream_posts = 0
    /\ upstream_replies = <<>>
    /\ response = 0
    /\ response_body = "none"

\* middlewares.push(...): the tool filter, the system prompt patcher and, if
\* enable_exit_tool, the tool enforcer
Middlewares(enable_exit_tool) ==
    <<"ToolFilterMiddleware", "SystemPromptPatcherMiddleware">>
    \o (IF enable_exit_tool THEN <<"ToolEnforcerMiddleware">> ELSE <<>>)

\* Event::default().event(get_event_type(&event)).json_data(event)
SseEvent(event) == [event |-> event.type, data |-> event]

\* The events sent to the client for the events convert_stream yielded in
\* one step: final_stream.map(...), with record_stream passing them through.
Deliver(before, after) ==
    [k \in 1..(Len(after) - Len(before)) |-> SseEvent(after[Len(before) + k])]

StreamInit ==
    /\ state = InitialStreamState
    /\ first_chunk = TRUE
    /\ chunks = <<>>
    /\ out = <<>>
    /\ spc = "polling"
    /\ \E enable_exit_tool \in BOOLEAN : middlewares = Middlewares(enable_exit_tool)
    /\ client = <<>>
    /\ HandlerIdle
    /\ MiddlewareIdle
    /\ SseIdle
    /\ ConvertIdle
    /\ HooksIdle
    /\ UtilIdle

\* input_stream.next() yields Ok(chunk)
PollChunk ==
    /\ spc = "polling"
    /\ Len(chunks) < MaxChunks
    /\ \E w \in 0..(MaxInput - InputWeight(chunks)) :
         \E sh \in ShapesByWeight[w] :
           LET chunk == Materialize(sh, Len(chunks) + 1)
           IN \E c \in ProcessChunk([st |-> state, out |-> out], first_chunk, chunk) :
                /\ state' = c.st
                /\ out' = c.out
                /\ client' = client \o Deliver(out, c.out)
                /\ chunks' = Append(chunks, chunk)
    /\ first_chunk' = FALSE
    /\ UNCHANGED <<spc, middlewares, handlerVars, middlewareVars, sseVars, convertVars, hookVars, utilVars>>

\* input_stream.next() yields Err(e)
PollError ==
    /\ spc = "polling"
    /\ Len(chunks) < MaxChunks
    /\ out' = Append(out, ErrorEvent)
    /\ client' = client \o Deliver(out, out')
    /\ chunks' = Append(chunks, ErrItem)
    /\ spc' = "failed"
    /\ UNCHANGED <<state, first_chunk, middlewares, handlerVars, middlewareVars, sseVars, convertVars, hookVars, utilVars>>

\* input_stream.next() yields None: the loop ends
PollEnd ==
    /\ spc \in {"polling", "failed"}
    /\ out' = Append(out, MessageStop)
    /\ client' = client \o Deliver(out, out')
    /\ spc' = "done"
    /\ UNCHANGED <<state, first_chunk, chunks, middlewares, handlerVars, middlewareVars, sseVars, convertVars, hookVars, utilVars>>

StreamNext == PollChunk \/ PollError \/ PollEnd

StreamSpec == StreamInit /\ [][StreamNext]_vars

(***************************************************************************)
(* Strings: sequences of one-character strings.                            *)
(***************************************************************************)
UpperCase == <<"A", "B", "C", "D", "E", "F", "G", "H", "I", "J", "K", "L", "M",
               "N", "O", "P", "Q", "R", "S", "T", "U", "V", "W", "X", "Y", "Z">>
LowerCase == <<"a", "b", "c", "d", "e", "f", "g", "h", "i", "j", "k", "l", "m",
               "n", "o", "p", "q", "r", "s", "t", "u", "v", "w", "x", "y", "z">>

\* char::to_lowercase, on the characters of the model's strings
LowerChar(ch) ==
    IF \E i \in 1..Len(UpperCase) : UpperCase[i] = ch
    THEN LowerCase[CHOOSE i \in 1..Len(UpperCase) : UpperCase[i] = ch]
    ELSE ch

\* str::to_lowercase
ToLowercase(s) == [i \in 1..Len(s) |-> LowerChar(s[i])]

\* str::contains
Contains(hay, needle) ==
    \E i \in 0..(Len(hay) - Len(needle)) : SubSeq(hay, i + 1, i + Len(needle)) = needle

\* str::starts_with / strip_prefix
StartsWith(s, prefix) ==
    Len(s) >= Len(prefix) /\ SubSeq(s, 1, Len(prefix)) = prefix

StripPrefix(s, prefix) == SubSeq(s, Len(prefix) + 1, Len(s))

\* glob_to_regex(pattern).is_match(s): the regex is (?i)^...$ where every *
\* of the pattern is .* (any characters but newline) and every other
\* character is escaped, so it stands for itself up to letter case; the
\* pattern ".*" is taken as the regex .* itself.
RECURSIVE GlobMatchFrom(_, _, _, _)
GlobMatchFrom(pattern, i, s, j) ==
    IF i > Len(pattern) THEN j > Len(s)
    ELSE IF pattern[i] = "*"
         THEN \E k \in j..(Len(s) + 1) :
                /\ \A m \in j..(k - 1) : s[m] # "\n"
                /\ GlobMatchFrom(pattern, i + 1, s, k)
         ELSE /\ j <= Len(s)
              /\ LowerChar(pattern[i]) = LowerChar(s[j])
              /\ GlobMatchFrom(pattern, i + 1, s, j + 1)

GlobMatch(pattern, s) ==
    IF pattern = <<".", "*">>
    THEN \A m \in 1..Len(s) : s[m] # "\n"
    ELSE GlobMatchFrom(pattern, 1, s, 1)

(***************************************************************************)
(* The router: resolve_via_rules (src/src/handlers.rs).                    *)
(***************************************************************************)
\* Option<String>::None
NoString == <<"\n">>

\* Feature Detection: request_features, in the order the handler pushes them
RequestFeatures(req) ==
    (IF req.has_images THEN <<"vision">> ELSE <<>>)
    \o (IF req.thinking THEN <<"reasoning">> ELSE <<>>)

\* A FeatureMatch that asks for all of the rule's features instead of any.
FeatureMatchAll(rule, request_features) ==
    \A f \in rule.match_features :
        \E k \in 1..Len(request_features) : request_features[k] = f

\* for rf in request_features { if rule.match_features.iter().any(|f| f == *rf) ... }
FeatureMatch(rule, request_features) ==
    \E k \in 1..Len(request_features) : request_features[k] \in rule.match_features

\* Whether the loop body of resolve_via_rules returns at this rule.
RuleReturns(rule, input_model, request_features) ==
    /\ GlobMatch(rule.pattern, input_model)
    /\ IF rule.match_features # {}
       THEN FeatureMatch(rule, request_features)
       ELSE TRUE

\* The loop of resolve_via_rules from rule k on: the rule it returns at (0:
\* the fallback) and the logical id it returns.
RECURSIVE ResolveFrom(_, _, _, _)
ResolveFrom(rules, k, input_model, request_features) ==
    IF k > Len(rules)
    THEN [rule |-> 0, id |-> input_model]
    ELSE IF RuleReturns(rules[k], input_model, request_features)
         THEN [rule |-> k, id |-> rules[k].target]
         ELSE ResolveFrom(rules, k + 1, input_model, request_features)

resolve_via_rules(profile, input_model, request_features) ==
    ResolveFrom(profile, 1, input_model, request_features)

(***************************************************************************)
(* Configurations and requests.                                            *)
(***************************************************************************)
OverridePrefix == <<"O", "V", "E", "R", "R", "I", "D", "E", "-">>
OverrideModelPrefix == OverridePrefix \o <<"M", "O", "D", "E", "L", "-">>
Anthropic == <<"a", "n", "t", "h", "r", "o", "p", "i", "c">>
Unknown == <<"u", "n", "k", "n", "o", "w", "n">>

\* logical model ids
Gpt4 == <<"g", "4">>
O1 == <<"o", "1">>
Opus == <<"o", "p">>
Bare == <<"b">>

\* The models table: api_model_id and api_params.retry.
Models ==
    [m \in {Gpt4, O1, Opus, Bare} |->
        CASE m = Gpt4 -> [api_model_id |-> <<"o", "a", "i", "/", "g">>,
                          retry |-> [present |-> TRUE, max_retries |-> 3, backoff_ms |-> 100]]
          [] m = O1 -> [api_model_id |-> <<"o", "a", "i", "/", "o">>,
                        retry |-> [present |-> TRUE, max_retries |-> 1, backoff_ms |-> 7]]
          [] m = Opus -> [api_model_id |-> <<"A", "n", "t", "h", "r", "o", "p", "i", "c", "/", "o">>,
                          retry |-> [present |-> FALSE, max_retries |-> 0, backoff_ms |-> 0]]
          [] OTHER -> [api_model_id |-> NoString,
                       retry |-> [present |-> FALSE, max_retries |-> 0, backoff_ms |-> 0]]]

FeatureNames == {"vision", "reasoning"}

\* The rules the router is checked on: every rule over two patterns, every
\* set of features, two targets and an optional reasoning_target.
Rules ==
    [pattern : {<<"c", "*">>, <<"*">>},
     match_features : SUBSET FeatureNames,
     target : {Gpt4, Opus},
     reasoning_target : {NoString, O1}]

RuleLists == UNION {[1..n -> Rules] : n \in 0..MaxRules}

\* The inbound model aliases the router is checked on.
RouterAliases == {<<"c", "3">>, <<"C", "3">>, <<"x", "c">>}

Requests(aliases) ==
    [model : aliases, thinking : BOOLEAN, has_images : BOOLEAN, stream : BOOLEAN]

\* The streamed response's variables while no stream is modelled.
StreamIdle ==
    /\ state = InitialStreamState
    /\ first_chunk = TRUE
    /\ chunks = <<>>
    /\ out = <<>>
    /\ spc = "idle"
    /\ middlewares = <<>>
    /\ client = <<>>

(***************************************************************************)
(* The router on its own: resolve_via_rules applied to a drawn profile and *)
(* request.                                                                *)
(***************************************************************************)
RouterInit ==
    /\ StreamIdle
    /\ MiddlewareIdle
    /\ SseIdle
    /\ \E rules \in RuleLists :
         config = [no_ant |-> FALSE, current_profile |-> <<"d">>,
                   profiles |-> [p \in {<<"d">>} |-> rules],
                   models |-> Models]
    /\ payload \in {r \in Requests(RouterAliases) : ~r.stream}
    /\ hpc = "received"
    /\ route = [rule |-> 0, target_logical_id |-> <<>>, wire_model |-> <<>>]
    /\ exec = [attempts |-> 0, context_length_retries |-> 0, sleeps |-> <<>>]
    /\ upstream_posts = 0
    /\ upstream_replies = <<>>
    /\ response = 0
    /\ response_body = "none"
    /\ ConvertIdle
    /\ HooksIdle
    /\ UtilIdle

Resolve ==
    /\ hpc = "received"
    /\ LET r == resolve_via_rules(config.profiles[config.current_profile],
                                  payload.model, RequestFeatures(payload))
       IN route' = [route EXCEPT !.rule = r.rule, !.target_logical_id = r.id]
    /\ hpc' = "resolved"
    /\ UNCHANGED <<streamVars, middlewareVars, config, payload, exec, upstream_posts, upstream_replies,
                   response, response_body, sseVars, convertVars, hookVars, utilVars>>

RouterNext == Resolve

RouterSpec == RouterInit /\ [][RouterNext]_vars

(***************************************************************************)
(* handle_messages (src/src/handlers.rs) and execute_upstream_request.     *)
(***************************************************************************)
AltProfile == <<"p", "2">>

\* The rule lists of the default profile the handler is checked on.
HandlerRuleLists ==
    {<<[pattern |-> <<"c", "*">>, match_features |-> {}, target |-> Gpt4,
        reasoning_target |-> NoString],
       [pattern |-> <<"r", "*">>, match_features |-> {"reasoning"}, target |-> Gpt4,
        reasoning_target |-> O1]>>,
     <<[pattern |-> <<"c", "*">>, match_features |-> {"vision"}, target |-> Opus,
        reasoning_target |-> NoString],
       [pattern |-> <<"*">>, match_features |-> {}, target |-> Bare,
        reasoning_target |-> NoString]>>}

HandlerConfigs ==
    {[no_ant |-> na, current_profile |-> <<"d">>,
      profiles |-> [p \in {<<"d">>, AltProfile} |->
                      IF p = AltProfile
                      THEN <<[pattern |-> <<"*">>, match_features |-> {}, target |-> Opus,
                              reasoning_target |-> NoString]>>
                      ELSE rules],
      models |-> Models] :
        na \in BOOLEAN, rules \in HandlerRuleLists}

\* The inbound model strings the handler is checked on.
HandlerAliases ==
    {<<"c", "3">>, <<"r", "1">>,
     <<"x", "-", "A", "N", "T", "H", "R", "O", "P", "I", "C">>,
     OverrideModelPrefix \o Opus, OverrideModelPrefix \o Gpt4,
     OverridePrefix \o AltProfile, OverridePrefix \o <<"z">>}

\* A check_overrides that tests for the profile prefix first.
check_overrides_profile_first(model) ==
    IF StartsWith(model, OverridePrefix)
    THEN [profile |-> StripPrefix(model, OverridePrefix), model |-> NoString]
    ELSE IF StartsWith(model, OverrideModelPrefix)
         THEN [profile |-> NoString, model |-> StripPrefix(model, OverrideModelPrefix)]
         ELSE [profile |-> NoString, model |-> NoString]

\* Override Logic
check_overrides(model) ==
    IF StartsWith(model, OverrideModelPrefix)
    THEN [profile |-> NoString, model |-> StripPrefix(model, OverrideModelPrefix)]
    ELSE IF StartsWith(model, OverridePrefix)
         THEN [profile |-> StripPrefix(model, OverridePrefix), model |-> NoString]
         ELSE [profile |-> NoString, model |-> NoString]

\* Config::get_wire_model_id
get_wire_model_id(model_conf) ==
    IF model_conf.api_model_id # NoString THEN model_conf.api_model_id ELSE Unknown

\* Model Resolution and Lookup ModelConfig: the rule, the logical id and the
\* wire model of a request under a profile.
ResolveRoute(cfg, profile, req, target_logical_id_override) ==
    LET r == IF target_logical_id_override # NoString
             THEN [rule |-> 0, id |-> target_logical_id_override]
             ELSE resolve_via_rules(profile, req.model, RequestFeatures(req))
    IN [rule |-> r.rule,
        target_logical_id |-> r.id,
        wire_model |-> IF r.id \in DOMAIN cfg.models
                       THEN get_wire_model_id(cfg.models[r.id])
                       ELSE r.id]

\* A NoAntForbids that forgets to_lowercase().
NoAntForbidsCaseSensitive(cfg, wire_model) ==
    cfg.no_ant /\ Contains(wire_model, Anthropic)

\* state.config.no_ant && wire_model.to_lowercase().contains("anthropic")
NoAntForbids(cfg, wire_model) ==
    cfg.no_ant /\ Contains(ToLowercase(wire_model), Anthropic)

HandlerInit ==
    /\ StreamIdle
    /\ MiddlewareIdle
    /\ SseIdle
    /\ config \in HandlerConfigs
    /\ payload = [model |-> <<>>, thinking |-> FALSE, has_images |-> FALSE, stream |-> FALSE]
    /\ hpc = "idle"
    /\ route = [rule |-> 0, target_logical_id |-> <<>>, wire_model |-> <<>>]
    /\ exec = [attempts |-> 0, context_length_retries |-> 0, sleeps |-> <<>>]
    /\ upstream_posts = 0
    /\ upstream_replies = <<>>
    /\ response = 0
    /\ response_body = "none"
    /\ ConvertIdle
    /\ HooksIdle
    /\ UtilIdle

\* The request body is parsed into the payload.
ReceiveRequest ==
    /\ hpc = "idle"
    /\ payload' \in Requests(HandlerAliases)
    /\ hpc' = "received"
    /\ UNCHANGED <<streamVars, middlewareVars, config, route, exec, upstream_posts, upstream_replies,
                   response, response_body, sseVars, convertVars, hookVars, utilVars>>

\* handle_messages from its entry to the call of execute_upstream_request,
\* or to the return that answers the request before it.  The on_request
\* hooks of the middlewares run before the routing; they return Ok and
\* rewrite tools, tool_choice, system and message text only, none of which
\* the routing reads.  convert_request always returns Ok.
HandleMessages ==
    /\ hpc = "received"
    /\ LET ov == check_overrides(payload.model)
           profile_name == IF ov.profile # NoString THEN ov.profile
                           ELSE config.current_profile
       IN IF profile_name \notin DOMAIN config.profiles
          THEN /\ response' = 500
               /\ response_body' = "message"
               /\ hpc' = "done"
               /\ UNCHANGED route
          ELSE LET r == ResolveRoute(config, config.profiles[profile_name], payload, ov.model)
               IN /\ route' = r
                  /\ IF NoAntForbids(config, r.wire_model)
                     THEN response' = 403 /\ response_body' = "message" /\ hpc' = "done"
                     ELSE UNCHANGED <<response, response_body, convertVars, hookVars, utilVars>> /\ hpc' = "executing"
    /\ UNCHANGED <<streamVars, middlewareVars, config, payload, exec, upstream_posts, upstream_replies, sseVars, convertVars, hookVars, utilVars>>

\* api_params.retry of the resolved model; api_params is None when the
\* logical id is not in the models table
RetryOf(cfg, rt) ==
    IF rt.target_logical_id \in DOMAIN cfg.models
    THEN cfg.models[rt.target_logical_id].retry
    ELSE [present |-> FALSE, max_retries |-> 0, backoff_ms |-> 0]

\* .map(|r| r.backoff_ms).unwrap_or(500)
DefaultBackoffMs == 500

\* let max_context_retries = 1
MaxContextRetries == 1

\* One retry more than the policy grants.
MaxRetriesOneMore(cfg, rt) ==
    IF RetryOf(cfg, rt).present THEN RetryOf(cfg, rt).max_retries + 1 ELSE 1

\* .map(|r| r.max_retries).unwrap_or(0)
MaxRetriesOf(cfg, rt) ==
    IF RetryOf(cfg, rt).present THEN RetryOf(cfg, rt).max_retries ELSE 0

BackoffOf(cfg, rt) ==
    IF RetryOf(cfg, rt).present THEN RetryOf(cfg, rt).backoff_ms ELSE DefaultBackoffMs

\* 2_u64.pow(n)
RECURSIVE Pow2(_)
Pow2(n) == IF n = 0 THEN 1 ELSE 2 * Pow2(n - 1)

\* A backoff that grows linearly instead of doubling.
SleepMillisLinear(backoff, attempts) == backoff * attempts

\* Duration::from_millis(backoff * (2_u64.pow(attempts - 1)))
SleepMillis(backoff, attempts) == backoff * Pow2(attempts - 1)

\* A test that takes every error status for a server error.
is_any_error(code) == code >= 400 /\ code <= 599

\* StatusCode::is_server_error
is_server_error(code) == code >= 500 /\ code <= 599

\* StatusCode::is_success
is_success(code) == code >= 200 /\ code <= 299

\* What one attempt can meet: a connection error, or a status with a body.
\* ctx tells whether a 400 body matches the context-length pattern, and then
\* whether the limit leaves tokens for the output ("room") or none ("full");
\* json tells whether the body parses (an error body as JSON, a 200 body as
\* an OpenAI response the handler can convert).
Outcomes ==
    {[kind |-> "conn", code |-> 0, ctx |-> "none", json |-> FALSE]}
    \cup {[kind |-> "status", code |-> c, ctx |-> "none", json |-> j] :
            c \in {200, 400, 404, 500, 503}, j \in BOOLEAN}
    \cup {[kind |-> "status", code |-> 400, ctx |-> x, json |-> TRUE] :
            x \in {"full", "room"}}

\* serde_json::from_str(&error_text).unwrap_or(json!({"error": error_text}))
ErrorBody(o) == IF o.json THEN "upstream_json" ELSE "wrapped"

\* loop { attempts += 1; ... attempt_builder.send() }
SendAttempt ==
    /\ hpc = "executing"
    /\ exec' = [exec EXCEPT !.attempts = @ + 1]
    /\ upstream_posts' = upstream_posts + 1
    /\ hpc' = "awaiting"
    /\ UNCHANGED <<streamVars, middlewareVars, config, payload, route, upstream_replies,
                   response, response_body, sseVars, convertVars, hookVars, utilVars>>

\* The answer of handle_messages to the client.
Answer(status, body) ==
    /\ hpc' = "done"
    /\ response' = status
    /\ response_body' = body
    /\ UNCHANGED exec

\* match attempt_builder.send().await { ... }, and on Ok(res) the rest of
\* handle_messages.
UpstreamOutcome ==
    /\ hpc = "awaiting"
    /\ \E o \in Outcomes :
         LET max_retries == MaxRetriesOf(config, route)
             backoff == BackoffOf(config, route)
         IN /\ upstream_replies' = Append(upstream_replies, o)
            /\ IF /\ o.kind = "conn" \/ is_server_error(o.code)
                  /\ exec.attempts <= max_retries
               THEN /\ exec' = [exec EXCEPT !.sleeps =
                                   Append(@, SleepMillis(backoff, exec.attempts))]
                    /\ hpc' = "executing"
                    /\ UNCHANGED <<response, response_body, convertVars, hookVars, utilVars>>
               ELSE IF o.kind = "conn"
                    THEN Answer(502, "message")
                    ELSE IF o.code = 400 /\ exec.context_length_retries < MaxContextRetries
                         THEN IF o.ctx = "room"
                              THEN /\ exec' = [exec EXCEPT !.context_length_retries = @ + 1]
                                   /\ hpc' = "executing"
                                   /\ UNCHANGED <<response, response_body, convertVars, hookVars, utilVars>>
                              ELSE Answer(400, ErrorBody(o))
                         ELSE IF ~is_success(o.code)
                              THEN Answer(o.code, ErrorBody(o))
                              ELSE IF payload.stream
                                   THEN Answer(200, "sse")
                                   ELSE IF o.json
                                        THEN Answer(200, "anthropic")
                                        ELSE Answer(500, "message")
    /\ UNCHANGED <<streamVars, middlewareVars, config, payload, route, upstream_posts, sseVars, convertVars, hookVars, utilVars>>

HandlerNext == ReceiveRequest \/ HandleMessages \/ SendAttempt \/ UpstreamOutcome

HandlerSpec == HandlerInit /\ [][HandlerNext]_vars

\* The runtime keeps polling the handler's future, and every send().await
\* resolves, to a response or to an error.
HandlerFairSpec == HandlerSpec /\ WF_vars(HandlerNext)

(***************************************************************************)
(* The middleware hooks of the non-streaming path: on_request before the   *)
(* routing, on_response after convert_response                             *)
(* (src/src/middleware/tool_enforcer.rs).  A tool is its name; a text is a *)
(* number, Empty for "".                                                   *)
(***************************************************************************)
\* Option<Vec<AnthropicTool>>
ToolLists ==
    {[present |-> FALSE, list |-> <<>>]} \cup
    {[present |-> TRUE, list |-> l] : l \in UNION {[1..n -> ToolNames] : n \in 0..MaxTools}}

\* Option<AnthropicToolChoice>: "tool" is a choice pinned to one tool
ToolChoices == {"None", "auto", "any", "tool"}

\* Option<SystemPrompt>, the text as the sequence of its parts
SystemPrompts == {[present |-> FALSE, text |-> <<>>], [present |-> TRUE, text |-> <<"s">>]}

\* The fields of AnthropicMessageRequest the hooks read or write.
MiddlewareRequests == [tools : ToolLists, tool_choice : ToolChoices, system : SystemPrompts]

\* AnthropicContentBlock::Text
TextBlock(text) == [type |-> "text", name |-> "", text |-> text, response |-> None]

\* AnthropicContentBlock::ToolUse; response is input["response"] when that
\* is a string, None otherwise
ToolUseBlock(name, response_arg) ==
    [type |-> "tool_use", name |-> name, text |-> None, response |-> response_arg]

ContentBlocks ==
    {TextBlock(1)} \cup {ToolUseBlock(n, r) : n \in ToolNames, r \in {None, 2}}

StopReasons == {"None", "tool_use", "end_turn", "max_tokens"}

\* The fields of AnthropicMessageResponse the hooks read or write.
MiddlewareResponses ==
    [content : UNION {[1..n -> ContentBlocks] : n \in 0..MaxBlocks},
     stop_reason : StopReasons]

\* ToolEnforcerMiddleware::on_request
EnforcerOnRequest(req) ==
    IF req.tools.present
    THEN IF ~\E k \in 1..Len(req.tools.list) : req.tools.list[k] = ExitTool
         THEN [req EXCEPT !.tools.list = Append(@, ExitTool)]
         ELSE req
    ELSE req

\* The loop of on_response from block k on: exit_tool_response, None until
\* an ExitTool block is met, then the response of the last one met ("" when
\* it has none).
RECURSIVE ExitToolResponse(_, _, _)
ExitToolResponse(content, k, found) ==
    IF k > Len(content) THEN found
    ELSE IF content[k].type = "tool_use" /\ content[k].name = ExitTool
         THEN ExitToolResponse(content, k + 1,
                               IF content[k].response # None
                               THEN content[k].response ELSE Empty)
         ELSE ExitToolResponse(content, k + 1, found)

\* ToolEnforcerMiddleware::on_response
EnforcerOnResponse(resp) ==
    LET exit_tool_response == ExitToolResponse(resp.content, 1, None)
    IN IF exit_tool_response # None
       THEN [resp EXCEPT !.content = <<TextBlock(exit_tool_response)>>,
                         !.stop_reason = "end_turn"]
       ELSE resp

MiddlewareInit ==
    /\ StreamIdle
    /\ HandlerIdle
    /\ SseIdle
    /\ enforcer = [pc |-> "idle"]
    /\ \E r \in MiddlewareRequests :
         mw = [pc |-> "request", req_in |-> r, req |-> r,
               resp_in |-> [content |-> <<>>, stop_reason |-> "None"],
               resp |-> [content |-> <<>>, stop_reason |-> "None"]]
    /\ ConvertIdle
    /\ HooksIdle
    /\ UtilIdle

\* for m in &middlewares { m.on_request(&mut payload) }
OnRequest ==
    /\ mw.pc = "request"
    /\ mw' = [mw EXCEPT !.req = EnforcerOnRequest(@), !.pc = "upstream"]
    /\ UNCHANGED <<streamVars, handlerVars, enforcer, sseVars, convertVars, hookVars, utilVars>>

\* convert_response(openai_resp, ...) yields Ok(anthropic_resp)
ConvertResponse ==
    /\ mw.pc = "upstream"
    /\ \E r \in MiddlewareResponses :
         mw' = [mw EXCEPT !.resp_in = r, !.resp = r, !.pc = "response"]
    /\ UNCHANGED <<streamVars, handlerVars, enforcer, sseVars, convertVars, hookVars, utilVars>>

\* for m in &middlewares { m.on_response(&mut anthropic_resp) }
OnResponse ==
    /\ mw.pc = "response"
    /\ mw' = [mw EXCEPT !.resp = EnforcerOnResponse(@), !.pc = "done"]
    /\ UNCHANGED <<streamVars, handlerVars, enforcer, sseVars, convertVars, hookVars, utilVars>>

MiddlewareNext == OnRequest \/ ConvertResponse \/ OnResponse

MiddlewareSpec == MiddlewareInit /\ [][MiddlewareNext]_vars

(***************************************************************************)
(* ToolEnforcerMiddleware::transform_stream.  The partial_json of an       *)
(* input_json_delta is a number that stands for its text: WholeJson is an  *)
(* object with a string field response, HeadJson and TailJson are the two  *)
(* halves of such an object, HugeJson is such an object longer than the    *)
(* buffer cap; every other fragment is an object with a string field       *)
(* response of its own.                                                    *)
(***************************************************************************)
WholeJson == 1
HeadJson == 2
TailJson == 3
HugeJson == 4

\* 1024 * 100
BufferCap == 102400

\* partial_json.len()
FragmentLen(v) ==
    CASE v = HugeJson -> BufferCap + 1
      [] v = HeadJson -> 12
      [] v = TailJson -> 4
      [] OTHER -> 16

\* tool_input_buffer.len()
RECURSIVE BufferLen(_)
BufferLen(buffer) ==
    IF Len(buffer) = 0 THEN 0
    ELSE FragmentLen(buffer[1]) + BufferLen(Tail(buffer))

\* serde_json::from_str::<Value>(&buffer) and then
\* json_val.get("response").and_then(|v| v.as_str()): the response text,
\* None when the buffer is not JSON or has no such field
ParseResponse(buffer) ==
    IF Len(buffer) = 1 /\ buffer[1] \notin {HeadJson, TailJson} THEN buffer[1]
    ELSE IF buffer = <<HeadJson, TailJson>> THEN WholeJson
         ELSE None

InitialEnforcerState ==
    [capturing_exit_tool |-> FALSE,
     has_captured_exit_tool |-> FALSE,
     tool_name_buffer |-> "",
     tool_input_buffer |-> <<>>,
     current_tool_index |-> None]

\* The body of the loop for Ok(event): the State it leaves and the events it
\* yields.
TransformEvent(st, event) ==
    CASE event.type = "content_block_start" ->
           IF event.kind = "tool_use" /\ event.name = ExitTool
           THEN [st |-> [st EXCEPT !.capturing_exit_tool = TRUE,
                                   !.current_tool_index = event.index,
                                   !.tool_name_buffer = event.name],
                 yield |-> <<>>]
           ELSE IF st.capturing_exit_tool
                THEN [st |-> st, yield |-> <<>>]
                ELSE [st |-> st, yield |-> <<event>>]
      [] event.type = "content_block_delta" ->
           IF st.capturing_exit_tool /\ st.current_tool_index = event.index
           THEN IF event.kind = "input_json_delta"
                THEN IF BufferLen(st.tool_input_buffer) + FragmentLen(event.payload)
                          > BufferCap
                     THEN [st |-> [st EXCEPT !.capturing_exit_tool = FALSE],
                           yield |-> <<>>]
                     ELSE [st |-> [st EXCEPT !.tool_input_buffer =
                                                Append(@, event.payload)],
                           yield |-> <<>>]
                ELSE [st |-> st, yield |-> <<>>]
           ELSE [st |-> st, yield |-> <<event>>]
      [] event.type = "content_block_stop" ->
           IF st.capturing_exit_tool /\ st.current_tool_index = event.index
           THEN LET response_text == ParseResponse(st.tool_input_buffer)
                IN [st |-> [st EXCEPT !.capturing_exit_tool = FALSE,
                                      !.has_captured_exit_tool = TRUE,
                                      !.current_tool_index = None,
                                      !.tool_input_buffer = <<>>],
                    yield |-> IF response_text # None
                              THEN <<ContentBlockStart(event.index, "text"),
                                     ContentBlockDelta(event.index, "text_delta",
                                                       response_text),
                                     ContentBlockStop(event.index)>>
                              ELSE <<>>]
           ELSE [st |-> st, yield |-> <<event>>]
      [] event.type = "message_delta" ->
           IF st.has_captured_exit_tool /\ event.kind = "tool_use"
           THEN [st |-> st, yield |-> <<[event EXCEPT !.kind = "end_turn"]>>]
           ELSE [st |-> st, yield |-> <<event>>]
      [] OTHER -> [st |-> st, yield |-> <<event>>]

\* The loop of transform_stream from State st on, over the events from the
\* k-th on: the events it yields.
RECURSIVE TransformFrom(_, _, _)
TransformFrom(st, events, k) ==
    IF k > Len(events) THEN <<>>
    ELSE LET t == TransformEvent(st, events[k])
         IN t.yield \o TransformFrom(t.st, events, k + 1)

\* Middleware::transform_stream of the middleware m: the trait's default
\* returns the stream as it is, and only the tool enforcer overrides it.
MiddlewareTransformStream(m, events) ==
    IF m = "ToolEnforcerMiddleware"
    THEN TransformFrom(InitialEnforcerState, events, 1)
    ELSE events

\* The events an input stream is made of.
BlockIndices == {0, 1}

InputEvents ==
    {ToolUseStart(i, n) : i \in BlockIndices, n \in ToolNames}
    \cup {ContentBlockDelta(i, "input_json_delta", v) :
            i \in BlockIndices, v \in {WholeJson, HeadJson, TailJson, HugeJson}}
    \cup {ContentBlockDelta(i, "text_delta", WholeJson) : i \in BlockIndices}
    \cup {ContentBlockStop(i) : i \in BlockIndices}
    \cup {MessageDelta(r, None) : r \in {"tool_use", "end_turn"}}
    \cup {MessageStop}

\* Err(e) of the input stream
ErrEvent == Ev("Err", None, "", None)

EnforcerInit ==
    /\ StreamIdle
    /\ HandlerIdle
    /\ SseIdle
    /\ mw = [pc |-> "idle"]
    /\ enforcer = [pc |-> "polling", state |-> InitialEnforcerState,
                   input |-> <<>>, yielded |-> <<>>]
    /\ ConvertIdle
    /\ HooksIdle
    /\ UtilIdle

\* stream.next() yields Ok(event)
EnforcerPollEvent ==
    /\ enforcer.pc = "polling"
    /\ Len(enforcer.input) < MaxEvents
    /\ \E event \in InputEvents :
         LET t == TransformEvent(enforcer.state, event)
         IN enforcer' = [enforcer EXCEPT !.state = t.st,
                                         !.input = Append(@, event),
                                         !.yielded = Append(@, t.yield)]
    /\ UNCHANGED <<streamVars, handlerVars, mw, sseVars, convertVars, hookVars, utilVars>>

\* stream.next() yields Err(e): Err(e) => yield Err(e)
EnforcerPollErr ==
    /\ enforcer.pc = "polling"
    /\ Len(enforcer.input) < MaxEvents
    /\ enforcer' = [enforcer EXCEPT !.input = Append(@, ErrEvent),
                                    !.yielded = Append(@, <<ErrEvent>>)]
    /\ UNCHANGED <<streamVars, handlerVars, mw, sseVars, convertVars, hookVars, utilVars>>

\* stream.next() yields None
EnforcerEnd ==
    /\ enforcer.pc = "polling"
    /\ enforcer' = [enforcer EXCEPT !.pc = "done"]
    /\ UNCHANGED <<streamVars, handlerVars, mw, sseVars, convertVars, hookVars, utilVars>>

EnforcerNext == EnforcerPollEvent \/ EnforcerPollErr \/ EnforcerEnd

EnforcerSpec == EnforcerInit /\ [][EnforcerNext]_vars

(***************************************************************************)
(* parse_sse_stream (src/src/handlers.rs).  The upstream body is a         *)
(* sequence of pieces of text: "\n" is a newline, "d" the prefix           *)
(* "data: ", "j" the JSON text of a chunk up to its content, "D" the text  *)
(* "[DONE]", "h" and "t" the lead byte and the continuation byte of a      *)
(* two-byte UTF-8 codepoint.  Decoded text holds "E" for that codepoint    *)
(* and "?" for U+FFFD.  A chunk that is yielded is named by the packet it  *)
(* comes from (the number of bytes of the body before the packet), the     *)
(* number of its line in the packet, and its content.                      *)
(***************************************************************************)
SseBytes == {"\n", "d", "j", "D", "h", "t"}

WideBytes == {"h", "t"}

DataPrefix == <<"d">>

\* the number of bytes of multi-byte codepoints in a body
RECURSIVE WideCount(_)
WideCount(bytes) ==
    IF bytes = <<>> THEN 0
    ELSE (IF Head(bytes) \in WideBytes THEN 1 ELSE 0) + WideCount(Tail(bytes))

\* for i in 0..buffer.len().saturating_sub(1) { if buffer[i] == b'\n' &&
\* buffer[i+1] == b'\n' ... }: the place of the first "\n\n", 0 for none
FindBoundary(buffer) ==
    IF \E i \in 1..(Len(buffer) - 1) : buffer[i] = "\n" /\ buffer[i + 1] = "\n"
    THEN CHOOSE i \in 1..(Len(buffer) - 1) :
            /\ buffer[i] = "\n" /\ buffer[i + 1] = "\n"
            /\ \A j \in 1..(i - 1) : ~(buffer[j] = "\n" /\ buffer[j + 1] = "\n")
    ELSE 0

\* String::from_utf8_lossy(&packet): a lead byte with its continuation
\* byte is one codepoint, a lead byte without one and a continuation byte
\* without a lead byte are U+FFFD each, every other byte is itself
RECURSIVE from_utf8_lossy(_)
from_utf8_lossy(bytes) ==
    IF bytes = <<>> THEN <<>>
    ELSE IF Head(bytes) = "h" /\ Len(bytes) >= 2 /\ bytes[2] = "t"
         THEN <<"E">> \o from_utf8_lossy(Tail(Tail(bytes)))
         ELSE IF Head(bytes) \in WideBytes
              THEN <<"?">> \o from_utf8_lossy(Tail(bytes))
              ELSE <<Head(bytes)>> \o from_utf8_lossy(Tail(bytes))

\* str::lines of s from place k on, the current line starting at place
\* start
RECURSIVE LinesOf(_, _, _)
LinesOf(s, k, start) ==
    IF k > Len(s)
    THEN IF start <= Len(s) THEN <<SubSeq(s, start, Len(s))>> ELSE <<>>
    ELSE IF s[k] = "\n"
         THEN <<SubSeq(s, start, k - 1)>> \o LinesOf(s, k + 1, k + 1)
         ELSE LinesOf(s, k + 1, start)

\* serde_json::from_str::<OpenAIChatCompletionChunk>(trimmed) is Ok: the
\* JSON text of a chunk, its content being the characters after "j"
IsChunkJson(trimmed) ==
    /\ trimmed # <<>>
    /\ trimmed[1] = "j"
    /\ \A i \in 2..Len(trimmed) : trimmed[i] \in {"E", "?"}

\* for line in s.lines() { ... } from the k-th line on: the chunks yielded;
\* base is the number of bytes of the body before the packet
RECURSIVE YieldsOf(_, _, _)
YieldsOf(lines, k, base) ==
    IF k > Len(lines) THEN <<>>
    ELSE IF StartsWith(lines[k], DataPrefix)
         THEN LET trimmed == StripPrefix(lines[k], DataPrefix)
              IN IF trimmed = <<"D">> THEN <<>>
                 ELSE IF trimmed = <<>> THEN YieldsOf(lines, k + 1, base)
                 ELSE IF IsChunkJson(trimmed)
                      THEN <<[packet |-> base, line |-> k, content |-> Tail(trimmed)]>>
                           \o YieldsOf(lines, k + 1, base)
                      ELSE YieldsOf(lines, k + 1, base)
         ELSE YieldsOf(lines, k + 1, base)

\* The inner loop without the buffer: what is after the last packet is
\* thrown away instead of waiting for the next network chunk.
RECURSIVE DrainBufferNoCarry(_, _)
DrainBufferNoCarry(buffer, base) ==
    LET idx == FindBoundary(buffer)
    IN IF idx = 0 THEN [buffer |-> <<>>, yield |-> <<>>]
       ELSE LET packet == SubSeq(buffer, 1, idx + 1)
                rest == DrainBufferNoCarry(SubSeq(buffer, idx + 2, Len(buffer)),
                                           base + idx + 1)
            IN [buffer |-> rest.buffer,
                yield |-> YieldsOf(LinesOf(from_utf8_lossy(packet), 1, 1), 1, base)
                          \o rest.yield]

\* The inner loop: packets are split off the buffer while it holds a
\* "\n\n"; what is left of the buffer and the chunks yielded.
RECURSIVE DrainBuffer(_, _)
DrainBuffer(buffer, base) ==
    LET idx == FindBoundary(buffer)
    IN IF idx = 0 THEN [buffer |-> buffer, yield |-> <<>>]
       ELSE LET packet == SubSeq(buffer, 1, idx + 1)
                rest == DrainBuffer(SubSeq(buffer, idx + 2, Len(buffer)), base + idx + 1)
            IN [buffer |-> rest.buffer,
                yield |-> YieldsOf(LinesOf(from_utf8_lossy(packet), 1, 1), 1, base)
                          \o rest.yield]

\* The network chunks a body can arrive in.
Segments == UNION {[1..n -> SseBytes] : n \in 1..MaxSegment}

\* What the end of the last network chunk and the start of this one cut in
\* two: a codepoint, the two newlines of a packet boundary.
CutsOf(buffer, chunk) ==
    IF buffer = <<>> THEN {}
    ELSE (IF buffer[Len(buffer)] = "h" /\ chunk[1] = "t" THEN {"codepoint"} ELSE {})
         \cup (IF buffer[Len(buffer)] = "\n" /\ chunk[1] = "\n" THEN {"boundary"} ELSE {})

SseInit ==
    /\ StreamIdle
    /\ HandlerIdle
    /\ MiddlewareIdle
    /\ sse = [pc |-> "polling", received |-> <<>>, cuts |-> {}, buffer |-> <<>>,
              yielded |-> <<>>]
    /\ ConvertIdle
    /\ HooksIdle
    /\ UtilIdle

\* stream.next() yields Ok(chunk)
SsePollBytes ==
    /\ sse.pc = "polling"
    /\ \E chunk \in Segments :
         /\ Len(sse.received) + Len(chunk) <= MaxBytes
         /\ WideCount(sse.received \o chunk) <= MaxWide
         /\ LET d == DrainBuffer(sse.buffer \o chunk,
                                 Len(sse.received) - Len(sse.buffer))
            IN sse' = [sse EXCEPT !.received = @ \o chunk,
                                  !.cuts = @ \cup CutsOf(sse.buffer, chunk),
                                  !.buffer = d.buffer,
                                  !.yielded = @ \o d.yield]
    /\ UNCHANGED <<streamVars, handlerVars, middlewareVars, convertVars, hookVars, utilVars>>

\* stream.next() yields Err(e): chunk_res? ends the stream with the error
SsePollErr ==
    /\ sse.pc = "polling"
    /\ sse' = [sse EXCEPT !.pc = "failed"]
    /\ UNCHANGED <<streamVars, handlerVars, middlewareVars, convertVars, hookVars, utilVars>>

\* stream.next() yields None
SseEnd ==
    /\ sse.pc = "polling"
    /\ sse' = [sse EXCEPT !.pc = "done"]
    /\ UNCHANGED <<streamVars, handlerVars, middlewareVars, convertVars, hookVars, utilVars>>

SseNext == SsePollBytes \/ SsePollErr \/ SseEnd

SseSpec == SseInit /\ [][SseNext]_vars

(***************************************************************************)
(* convert_request (src/src/transformer/request.rs).  A content block is a *)
(* record with the fields of every variant ("" for a field the variant     *)
(* lacks); Option<u32> is None or the number; a JSON value of the          *)
(* configuration is a record of its kind and its string or number.         *)
(***************************************************************************)
ToolUseIds == {"a", "b"}

TextReqBlock ==
    [type |-> "text", text |-> "x", id |-> "", name |-> "", tool_use_id |-> ""]

ToolUseReqBlock(id, name) ==
    [type |-> "tool_use", text |-> "", id |-> id, name |-> name, tool_use_id |-> ""]

\* content: None
ToolResultReqBlock(tool_use_id) ==
    [type |-> "tool_result", text |-> "", id |-> "", name |-> "",
     tool_use_id |-> tool_use_id]

RedactedReqBlock ==
    [type |-> "redacted_thinking", text |-> "", id |-> "", name |-> "", tool_use_id |-> ""]

RequestBlocks ==
    {TextReqBlock, RedactedReqBlock,
     ToolUseReqBlock("a", ""), ToolUseReqBlock("a", "t"), ToolUseReqBlock("b", "t")}
    \cup {ToolResultReqBlock(id) : id \in ToolUseIds}

\* AnthropicMessageContent::String and ::Blocks
StringContent(s) == [kind |-> "string", s |-> s, blocks |-> <<>>]

BlocksContent(blocks) == [kind |-> "blocks", s |-> "", blocks |-> blocks]

MessageRoles == {"user", "assistant"}

\* The messages whose content is c blocks; a message without a block (an
\* empty list, a string) counts as one.
MessagesOfSize(c) ==
    {[role |-> r, content |-> BlocksContent(b)] :
        r \in MessageRoles, b \in [1..c -> RequestBlocks]}
    \cup (IF c = 1
          THEN {[role |-> r, content |-> k] :
                   r \in MessageRoles,
                   k \in {BlocksContent(<<>>), StringContent(""), StringContent("hi")}}
          ELSE {})

\* The message lists of at most n messages and at most budget blocks.
RECURSIVE Histories(_, _)
Histories(n, budget) ==
    {<<>>} \cup
    (IF n = 0 THEN {}
     ELSE UNION {UNION {{<<m>> \o h : m \in MessagesOfSize(c)} :
                           h \in Histories(n - 1, budget - c)} :
                    c \in 1..budget})

\* Option<SystemPrompt>: None, String, Array of the texts of its blocks
SystemNone == [kind |-> "none", s |-> <<>>, blocks |-> <<>>]

SystemString(s) == [kind |-> "string", s |-> s, blocks |-> <<>>]

SystemArray(blocks) == [kind |-> "array", s |-> <<>>, blocks |-> blocks]

\* serde_json::Value of preprocess.max_output_tokens (JsonNull when absent)
JsonNull == [kind |-> "none", s |-> "", n |-> None]

JsonString(str) == [kind |-> "string", s |-> str, n |-> None]

JsonNumber(num) == [kind |-> "number", s |-> "", n |-> num]

\* Option<ReasoningConfig>
ReasoningNone == [kind |-> "none", b |-> FALSE, lvl |-> "", n |-> None]

ReasoningBool(b) == [kind |-> "bool", b |-> b, lvl |-> "", n |-> None]

ReasoningLevel(lvl) == [kind |-> "level", b |-> FALSE, lvl |-> lvl, n |-> None]

ReasoningBudget(n) == [kind |-> "budget", b |-> FALSE, lvl |-> "", n |-> n]

\* Option<PreprocessConfig>; an Option<bool> is "none", "true" or "false"
NoPreprocess ==
    [present |-> FALSE, merge_system_messages |-> "none",
     sanitize_tool_history |-> "none", max_output_tokens |-> JsonNull,
     max_output_cap |-> None]

\* Option<&ModelConfig>
NoModelConfig ==
    [present |-> FALSE, max_tokens |-> None, preprocess |-> NoPreprocess,
     force_reasoning |-> ReasoningNone, min_reasoning |-> ReasoningNone]

\* ---- preprocess_messages ----

\* the texts of the blocks joined by "\n\n"
RECURSIVE JoinTexts(_)
JoinTexts(blocks) ==
    IF blocks = <<>> THEN <<>>
    ELSE IF Len(blocks) = 1 THEN blocks[1]
         ELSE blocks[1] \o <<"\n\n">> \o JoinTexts(Tail(blocks))

\* 1. Merge System Messages
MergeSystem(system, pp) ==
    IF pp.merge_system_messages = "true" /\ system.kind = "array"
    THEN SystemString(JoinTexts(system.blocks))
    ELSE system

\* a tool_use block whose name is empty
IsInvalidToolUse(block) == block.type = "tool_use" /\ block.name = ""

\* Only the first tool_use with an empty name is removed from a list.
RECURSIVE RetainValidToolUsesOnce(_)
RetainValidToolUsesOnce(blocks) ==
    IF blocks = <<>> THEN [blocks |-> <<>>, removed |-> {}]
    ELSE IF IsInvalidToolUse(Head(blocks))
         THEN [blocks |-> Tail(blocks), removed |-> {Head(blocks).id}]
         ELSE LET rest == RetainValidToolUsesOnce(Tail(blocks))
              IN [blocks |-> <<Head(blocks)>> \o rest.blocks, removed |-> rest.removed]

\* blocks.retain(..) of pass 1: the blocks kept and the ids put into
\* removed_tool_ids
RetainValidToolUses(blocks) ==
    [blocks |-> SelectSeq(blocks, LAMBDA block : ~IsInvalidToolUse(block)),
     removed |-> {blocks[j].id : j \in {j \in 1..Len(blocks) : IsInvalidToolUse(blocks[j])}}]

\* Pass 1 looks at the messages of the assistant whose content is a list of
\* blocks.
InPass1(msg) == msg.role = "assistant" /\ msg.content.kind = "blocks"

SanitizePass1(messages) ==
    [messages |->
        [i \in 1..Len(messages) |->
            IF InPass1(messages[i])
            THEN [messages[i] EXCEPT
                    !.content.blocks = RetainValidToolUses(@).blocks]
            ELSE messages[i]],
     removed_tool_ids |->
        UNION {RetainValidToolUses(messages[i].content.blocks).removed :
                 i \in {i \in 1..Len(messages) : InPass1(messages[i])}}]

\* blocks.retain(..) of pass 2
RetainLiveToolResults(blocks, removed_tool_ids) ==
    SelectSeq(blocks, LAMBDA block :
        ~(block.type = "tool_result" /\ block.tool_use_id \in removed_tool_ids))

SanitizePass2(messages, removed_tool_ids) ==
    [i \in 1..Len(messages) |->
        IF messages[i].content.kind = "blocks"
        THEN [messages[i] EXCEPT
                !.content.blocks = RetainLiveToolResults(@, removed_tool_ids)]
        ELSE messages[i]]

\* req.messages.retain(..): a message with no block or an empty string is
\* dropped
IsEmptyMessage(msg) ==
    IF msg.content.kind = "blocks" THEN msg.content.blocks = <<>>
    ELSE msg.content.s = ""

RetainNonEmpty(messages) == SelectSeq(messages, LAMBDA msg : ~IsEmptyMessage(msg))

\* 2. Sanitize Tool History
SanitizeToolHistory(messages) ==
    LET pass1 == SanitizePass1(messages)
    IN IF pass1.removed_tool_ids # {}
       THEN RetainNonEmpty(SanitizePass2(pass1.messages, pass1.removed_tool_ids))
       ELSE pass1.messages

preprocess_messages(req, pp) ==
    [req EXCEPT
        !.system = MergeSystem(@, pp),
        !.messages = IF pp.sanitize_tool_history = "true"
                     THEN SanitizeToolHistory(@)
                     ELSE @]

\* ---- max_tokens ----

\* n.as_u64(): None for a negative number (`u as u32` after it changes no
\* number below 2^32)
as_u64(n) == IF n >= 0 THEN n ELSE None

\* if current > cap { req.max_tokens = Some(cap) }
ClampTo(current, cap) ==
    IF cap # None /\ current # None /\ current > cap THEN cap ELSE current

\* 2. Max Output Tokens Policy, or the legacy cap when there is no policy
ApplyPolicy(current, pp) ==
    LET policy == pp.max_output_tokens
    IN IF policy.kind # "none"
       THEN IF policy.kind = "string" /\ policy.s = "auto" THEN None
            ELSE IF policy.kind = "number" /\ as_u64(policy.n) # None
                 THEN as_u64(policy.n)
                 ELSE current
       ELSE ClampTo(current, pp.max_output_cap)

\* The cap is not applied.
EmittedMaxTokensNoCap(max_tokens, mc) ==
    IF ~mc.present THEN max_tokens
    ELSE LET overridden == IF mc.max_tokens # None THEN mc.max_tokens ELSE max_tokens
         IN IF mc.preprocess.present
            THEN ApplyPolicy(overridden, [mc.preprocess EXCEPT !.max_output_cap = None])
            ELSE overridden

\* req.max_tokens after lines 22-61
EmittedMaxTokens(max_tokens, mc) ==
    IF ~mc.present THEN max_tokens
    ELSE LET overridden == IF mc.max_tokens # None THEN mc.max_tokens ELSE max_tokens
         IN IF mc.preprocess.present
            THEN ClampTo(ApplyPolicy(overridden, mc.preprocess),
                         mc.preprocess.max_output_cap)
            ELSE overridden

\* ---- messages ----

\* OpenAIMessage; content is None, a string or an array of parts; from is
\* the number of the message of the request it was built for (0: the
\* system prompt) and block the number of the block a tool message answers
OpenAIMessage(role, content, tool_calls, tool_call_id, from, block) ==
    [role |-> role, content |-> content, tool_calls |-> tool_calls,
     tool_call_id |-> tool_call_id, from |-> from, block |-> block]

ContentNone == [kind |-> "none", parts |-> <<>>]

ContentString(text) == [kind |-> "string", parts |-> <<text>>]

ContentArray(parts) == [kind |-> "array", parts |-> parts]

\* 1. Handle System Messages
SystemMessages(system) ==
    IF system.kind = "string"
    THEN <<OpenAIMessage("system", ContentString(system.s), <<>>, "", 0, 0)>>
    ELSE IF system.kind = "array"
         THEN [i \in 1..Len(system.blocks) |->
                 OpenAIMessage("system", ContentString(system.blocks[i]), <<>>, "", 0, 0)]
         ELSE <<>>

IsToolResult(block) == block.type = "tool_result"

\* the places of the tool_result blocks of a list from place k on, in order
RECURSIVE ToolResultPlaces(_, _)
ToolResultPlaces(blocks, k) ==
    IF k > Len(blocks) THEN <<>>
    ELSE (IF IsToolResult(blocks[k]) THEN <<k>> ELSE <<>>)
         \o ToolResultPlaces(blocks, k + 1)

\* 2a. Process Tool Results FIRST: one role:tool message for each; the
\* content None of a result becomes ""
ToolMessages(blocks, i) ==
    LET places == ToolResultPlaces(blocks, 1)
    IN [k \in 1..Len(places) |->
          OpenAIMessage("tool", ContentString(""), <<>>,
                        blocks[places[k]].tool_use_id, i, places[k])]

\* 2b. Process Remaining Content: text parts, tool calls; a block of
\* another kind gives nothing
OtherMessage(role, blocks, i) ==
    LET other_blocks == SelectSeq(blocks, LAMBDA block : ~IsToolResult(block))
        texts == SelectSeq(other_blocks, LAMBDA block : block.type = "text")
        uses == SelectSeq(other_blocks, LAMBDA block : block.type = "tool_use")
        content_parts == [k \in 1..Len(texts) |-> texts[k].text]
        tool_calls == [k \in 1..Len(uses) |-> [id |-> uses[k].id, name |-> uses[k].name]]
        final_content == IF content_parts = <<>> THEN ContentNone
                         ELSE IF Len(content_parts) = 1
                              THEN ContentString(content_parts[1])
                              ELSE ContentArray(content_parts)
    IN IF final_content.kind # "none" \/ tool_calls # <<>>
       THEN <<OpenAIMessage(role, final_content, tool_calls, "", i, 0)>>
       ELSE <<>>

\* The message of the other blocks is pushed before the tool messages.
MessageOutputOthersFirst(msg, i) ==
    IF msg.content.kind = "string"
    THEN <<OpenAIMessage(msg.role, ContentString(msg.content.s), <<>>, "", i, 0)>>
    ELSE OtherMessage(msg.role, msg.content.blocks, i)
         \o ToolMessages(msg.content.blocks, i)

\* What one pass of `for msg in req.messages` pushes.
MessageOutput(msg, i) ==
    IF msg.content.kind = "string"
    THEN <<OpenAIMessage(msg.role, ContentString(msg.content.s), <<>>, "", i, 0)>>
    ELSE ToolMessages(msg.content.blocks, i)
         \o OtherMessage(msg.role, msg.content.blocks, i)

RECURSIVE MessagesFrom(_, _)
MessagesFrom(messages, i) ==
    IF i > Len(messages) THEN <<>>
    ELSE MessageOutput(messages[i], i) \o MessagesFrom(messages, i + 1)

\* ---- reasoning ----

\* the JSON object of the reasoning: {"effort": e} or {"max_tokens": n}
NoReasoning == [kind |-> "none", effort |-> "", max_tokens |-> None]

Effort(e) == [kind |-> "effort", effort |-> e, max_tokens |-> None]

Budget(n) == [kind |-> "budget", effort |-> "", max_tokens |-> n]

\* Force Override
ForcedReasoning(force) ==
    IF force.kind = "bool" THEN (IF force.b THEN Effort("medium") ELSE Effort("none"))
    ELSE IF force.kind = "level" THEN Effort(force.lvl)
    ELSE Budget(force.n)

\* The minimum replaces the inbound budget whatever it is.
MinReasoningAlways(reasoning, min) ==
    IF min.kind = "bool" THEN (IF min.b THEN Effort("low") ELSE Effort("none"))
    ELSE IF min.kind = "level" THEN Effort(min.lvl)
    ELSE Budget(min.n)

\* Min Override
MinReasoning(reasoning, min) ==
    IF reasoning.kind = "none"
    THEN IF min.kind = "bool" THEN (IF min.b THEN Effort("low") ELSE Effort("none"))
         ELSE IF min.kind = "level" THEN Effort(min.lvl)
         ELSE Budget(min.n)
    ELSE IF min.kind = "budget" /\ reasoning.kind = "budget"
            /\ reasoning.max_tokens < min.n
         THEN Budget(min.n)
         ELSE reasoning

Reasoning(thinking, mc) ==
    LET reasoning == IF thinking # None THEN Budget(thinking) ELSE NoReasoning
    IN IF ~mc.present THEN reasoning
       ELSE IF mc.force_reasoning.kind # "none" THEN ForcedReasoning(mc.force_reasoning)
       ELSE IF mc.min_reasoning.kind # "none" THEN MinReasoning(reasoning, mc.min_reasoning)
       ELSE reasoning

\* ---- convert_request ----

\* the request after the preprocessing of lines 13-20
Preprocessed(req, mc) ==
    IF mc.present /\ mc.preprocess.present
    THEN preprocess_messages(req, mc.preprocess)
    ELSE req

convert_request(req, mc) ==
    LET pre == Preprocessed(req, mc)
    IN [messages |-> SystemMessages(pre.system) \o MessagesFrom(pre.messages, 1),
        max_tokens |-> EmittedMaxTokens(req.max_tokens, mc),
        reasoning |-> Reasoning(req.thinking, mc)]

\* The fields of AnthropicMessageRequest convert_request reads here.
ConvertRequests(systems, histories, tokens) ==
    [system : systems, messages : histories, max_tokens : tokens, thinking : tokens]

OptionTokens == {None} \cup 1..MaxTokenCount

\* The configurations that differ in the sanitizer only.
SanitizeConfigs ==
    {[NoModelConfig EXCEPT
        !.present = TRUE,
        !.preprocess = [NoPreprocess EXCEPT !.present = TRUE,
                                            !.sanitize_tool_history = s]] :
        s \in {"none", "true"}}

\* The configurations of max_tokens and of the reasoning.
ReasoningConfigs ==
    {ReasoningNone, ReasoningBool(TRUE), ReasoningBool(FALSE), ReasoningLevel("high")}
    \cup {ReasoningBudget(n) : n \in 1..MaxTokenCount}

PreprocessConfigs ==
    {NoPreprocess} \cup
    [present : {TRUE}, merge_system_messages : {"none", "true"},
     sanitize_tool_history : {"none"},
     max_output_tokens : {JsonNull, JsonString("auto"), JsonString("other")}
                         \cup {JsonNumber(n) : n \in (-1)..MaxTokenCount},
     max_output_cap : OptionTokens]

ParamConfigs ==
    {NoModelConfig} \cup
    [present : {TRUE}, max_tokens : OptionTokens, preprocess : PreprocessConfigs,
     force_reasoning : ReasoningConfigs, min_reasoning : ReasoningConfigs]

\* A request with a message history, under a configuration of the sanitizer.
ConvertInit ==
    /\ StreamIdle
    /\ HandlerIdle
    /\ MiddlewareIdle
    /\ SseIdle
    /\ HooksIdle
    /\ UtilIdle
    /\ \E req \in ConvertRequests({SystemNone, SystemString(<<"s">>)},
                                  Histories(MaxMessages, MaxContent), {None}),
          mc \in SanitizeConfigs :
         conv = [pc |-> "received", req |-> req, model_config |-> mc,
                 pre |-> req,
                 openai |-> [messages |-> <<>>, max_tokens |-> None,
                             reasoning |-> NoReasoning]]

\* A request with max_tokens and thinking, under a configuration of the
\* output limit and the reasoning.
ParamInit ==
    /\ StreamIdle
    /\ HandlerIdle
    /\ MiddlewareIdle
    /\ SseIdle
    /\ HooksIdle
    /\ UtilIdle
    /\ \E req \in ConvertRequests(
                     {SystemNone, SystemArray(<<(<<"s">>), <<"r">>>>)},
                     {<<>>}, OptionTokens),
          mc \in ParamConfigs :
         conv = [pc |-> "received", req |-> req, model_config |-> mc,
                 pre |-> req,
                 openai |-> [messages |-> <<>>, max_tokens |-> None,
                             reasoning |-> NoReasoning]]

ConvertRequest ==
    /\ conv.pc = "received"
    /\ conv' = [conv EXCEPT !.pc = "converted",
                            !.pre = Preprocessed(conv.req, conv.model_config),
                            !.openai = convert_request(conv.req, conv.model_config)]
    /\ UNCHANGED <<streamVars, handlerVars, middlewareVars, sseVars, hookVars, utilVars>>

ConvertNext == ConvertRequest

ConvertSpec == ConvertInit /\ [][ConvertNext]_vars

ParamSpec == ParamInit /\ [][ConvertNext]_vars

(***************************************************************************)
(* "Prepare Body" of handle_messages (src/src/handlers.rs): the upstream   *)
(* request serialized to JSON and the extra_body of the model's            *)
(* api_params.  A JSON value is a string or an object, an object a         *)
(* function from its keys; the strings of the request are "r", those of    *)
(* extra_body "e".                                                         *)
(***************************************************************************)
JsonLeaf(str) == [kind |-> "string", s |-> str, o |-> <<>>]

JsonObject(obj) == [kind |-> "object", s |-> "", o |-> obj]

\* the objects with some of these keys and these values
ObjectsOver(keys, values) == UNION {[ks -> values] : ks \in SUBSET keys}

\* a value inside a field of the body: a string or an object of strings
InnerValues(leaf) ==
    {JsonLeaf(leaf)} \cup {JsonObject(obj) : obj \in ObjectsOver({"k"}, {JsonLeaf(leaf)})}

\* a field of the body: a string or an object of inner values
FieldValues(leaf) ==
    {JsonLeaf(leaf)} \cup
    {JsonObject(obj) : obj \in ObjectsOver({"max_tokens", "exclude"}, InnerValues(leaf))}

\* the top-level JSON object
Bodies(leaf) == ObjectsOver({"reasoning", "provider"}, FieldValues(leaf))

\* Option<ApiParams>, its extra_body
ApiParamsSet ==
    {[present |-> FALSE, extra_body |-> <<>>]} \cup
    {[present |-> TRUE, extra_body |-> e] : e \in Bodies("e")}

\* for (k, v) in &params.extra_body { map.insert(k.clone(), v.clone()); }
InsertAll(map, extra_body) ==
    [k \in (DOMAIN map) \cup (DOMAIN extra_body) |->
        IF k \in DOMAIN extra_body THEN extra_body[k] ELSE map[k]]

\* final_body after lines 195-204
FinalBody(body, api_params) ==
    IF api_params.present /\ DOMAIN api_params.extra_body # {}
    THEN InsertAll(body, api_params.extra_body)
    ELSE body

BodyInit ==
    /\ StreamIdle
    /\ HandlerIdle
    /\ MiddlewareIdle
    /\ SseIdle
    /\ ConvertIdle
    /\ filter = [pc |-> "idle"]
    /\ patcher = [pc |-> "idle"]
    /\ UtilIdle
    /\ \E body \in Bodies("r"), api_params \in ApiParamsSet :
         prep = [pc |-> "converted", body |-> body, api_params |-> api_params,
                 final_body |-> <<>>]

PrepareBody ==
    /\ prep.pc = "converted"
    /\ prep' = [prep EXCEPT !.pc = "prepared",
                            !.final_body = FinalBody(prep.body, prep.api_params)]
    /\ UNCHANGED <<streamVars, handlerVars, middlewareVars, sseVars, convertVars,
                   filter, patcher, utilVars>>

BodyNext == PrepareBody

BodySpec == BodyInit /\ [][BodyNext]_vars

(***************************************************************************)
(* ToolFilterMiddleware::on_request (src/src/middleware/tool_filter.rs).   *)
(* A tool is its name; names and patterns are tuples of characters.        *)
(***************************************************************************)
FilterToolNames == {<<"a">>, <<"A">>, <<"b">>, <<"b", "a">>}

FilterPatterns == {<<"a">>, <<"b">>, <<"*", "a">>, <<"a", "*">>}

\* Regex::new(pattern) is Ok: a pattern of letters and * is a regex unless
\* it starts with *, which has nothing to repeat
IsRegex(pattern) == pattern = <<>> \/ pattern[1] # "*"

\* the regex of such a pattern matches s from place j on: a letter stands
\* for itself, a letter with * for any number of it, and the match may end
\* anywhere
RECURSIVE RegexMatchFrom(_, _, _, _)
RegexMatchFrom(pattern, i, s, j) ==
    IF i > Len(pattern) THEN TRUE
    ELSE IF i < Len(pattern) /\ pattern[i + 1] = "*"
         THEN \/ RegexMatchFrom(pattern, i + 2, s, j)
              \/ /\ j <= Len(s)
                 /\ s[j] = pattern[i]
                 /\ RegexMatchFrom(pattern, i, s, j + 1)
         ELSE /\ j <= Len(s)
              /\ s[j] = pattern[i]
              /\ RegexMatchFrom(pattern, i + 1, s, j + 1)

\* re.is_match(s): the match may start anywhere
RegexMatch(pattern, s) ==
    \E j \in 1..(Len(s) + 1) : RegexMatchFrom(pattern, 1, s, j)

\* Try raw regex first, fall back to glob
PatternMatches(pattern, s) ==
    IF IsRegex(pattern) THEN RegexMatch(pattern, s) ELSE GlobMatch(pattern, s)

\* Option<Vec<String>>
PatternLists ==
    {[present |-> FALSE, list |-> <<>>]} \cup
    {[present |-> TRUE, list |-> l] :
        l \in UNION {[1..n -> FilterPatterns] : n \in 0..MaxPatterns}}

\* Option<ToolFilterConfig>
ToolFilterConfigs ==
    {[present |-> FALSE, allow |-> [present |-> FALSE, list |-> <<>>],
      deny |-> [present |-> FALSE, list |-> <<>>]]}
    \cup [present : {TRUE}, allow : PatternLists, deny : PatternLists]

\* the fields of the request the hook can see here
FilterRequests ==
    [tools : {[present |-> FALSE, list |-> <<>>]} \cup
             {[present |-> TRUE, list |-> l] :
                 l \in UNION {[1..n -> FilterToolNames] : n \in 0..MaxTools}},
     tool_choice : {"None", "auto"}]

SomeMatches(patterns, name) ==
    \E k \in 1..Len(patterns) : PatternMatches(patterns[k], name)

\* A tool that matches an allow pattern is kept whatever deny says.
RetainedAllowFirst(name, cfg) ==
    IF cfg.allow.present /\ SomeMatches(cfg.allow.list, name) THEN TRUE
    ELSE /\ ~(cfg.deny.present /\ SomeMatches(cfg.deny.list, name))
         /\ ~cfg.allow.present

\* the closure of tools.retain: Deny logic, then Allow logic
Retained(name, cfg) ==
    IF cfg.deny.present /\ SomeMatches(cfg.deny.list, name) THEN FALSE
    ELSE IF cfg.allow.present /\ ~SomeMatches(cfg.allow.list, name) THEN FALSE
    ELSE TRUE

ToolFilterOnRequest(req, cfg) ==
    IF cfg.present /\ req.tools.present
    THEN [req EXCEPT !.tools.list = SelectSeq(@, LAMBDA name : Retained(name, cfg))]
    ELSE req

FilterInit ==
    /\ StreamIdle
    /\ HandlerIdle
    /\ MiddlewareIdle
    /\ SseIdle
    /\ ConvertIdle
    /\ prep = [pc |-> "idle"]
    /\ patcher = [pc |-> "idle"]
    /\ UtilIdle
    /\ \E req \in FilterRequests, cfg \in ToolFilterConfigs :
         filter = [pc |-> "request", config |-> cfg, req_in |-> req, req |-> req]

FilterOnRequest ==
    /\ filter.pc = "request"
    /\ filter' = [filter EXCEPT !.pc = "done",
                                !.req = ToolFilterOnRequest(filter.req_in, filter.config)]
    /\ UNCHANGED <<streamVars, handlerVars, middlewareVars, sseVars, convertVars,
                   prep, patcher, utilVars>>

FilterNext == FilterOnRequest

FilterSpec == FilterInit /\ [][FilterNext]_vars

(***************************************************************************)
(* SystemPromptPatcherMiddleware::on_request                               *)
(* (src/src/middleware/system_prompt.rs).  Texts are tuples of characters; *)
(* a content block of a message is the text of a Text block.               *)
(***************************************************************************)
\* the "\n\n" of join and format!
Separator == <<"\n", "\n">>

\* AnthropicMessageContent::String
TextContent(text) == [kind |-> "string", s |-> text, blocks |-> <<>>]

\* AnthropicMessageContent::Blocks
TextBlocksContent(blocks) == [kind |-> "blocks", s |-> <<>>, blocks |-> blocks]

PatcherSystems ==
    {SystemNone, SystemString(<<>>), SystemString(<<"a", "b">>),
     SystemArray(<<<<"a">>, <<"b">>>>)}

PatcherMessages ==
    {<<[role |-> "assistant", content |-> TextContent(<<"h">>)],
       [role |-> "user", content |-> TextContent(<<"u">>)]>>,
     <<[role |-> "user", content |-> TextBlocksContent(<<<<"u">>>>)]>>,
     <<[role |-> "assistant", content |-> TextContent(<<"h">>)]>>}

\* SystemPromptRule.match
MatchLists == {<<<<"A", "L", "L">>>>, <<<<"a">>>>, <<<<"a">>, <<"*", "b">>>>}

\* SystemPromptOp; an Option<String> that is None is NoString
ReplaceOp(pattern, with) ==
    [type |-> "replace", pattern |-> pattern, with |-> with, value |-> <<>>,
     forced_system_prompt |-> NoString, prefix |-> NoString, suffix |-> NoString]

PrependOp(value) ==
    [type |-> "prepend", pattern |-> <<>>, with |-> <<>>, value |-> value,
     forced_system_prompt |-> NoString, prefix |-> NoString, suffix |-> NoString]

AppendOp(value) ==
    [type |-> "append", pattern |-> <<>>, with |-> <<>>, value |-> value,
     forced_system_prompt |-> NoString, prefix |-> NoString, suffix |-> NoString]

MoveToUserOp(forced_system_prompt, prefix, suffix) ==
    [type |-> "move_to_user", pattern |-> <<>>, with |-> <<>>, value |-> <<>>,
     forced_system_prompt |-> forced_system_prompt, prefix |-> prefix,
     suffix |-> suffix]

DeleteOp ==
    [type |-> "delete", pattern |-> <<>>, with |-> <<>>, value |-> <<>>,
     forced_system_prompt |-> NoString, prefix |-> NoString, suffix |-> NoString]

PromptOps ==
    {ReplaceOp(<<"a">>, <<"c">>), PrependOp(<<"p">>), AppendOp(<<"b">>),
     MoveToUserOp(NoString, NoString, NoString),
     MoveToUserOp(<<"a">>, <<"<">>, <<">">>), DeleteOp}

\* the actions of acts that owner gives to rule i, in their order
RECURSIVE ActionsOf(_, _, _)
ActionsOf(acts, owner, i) ==
    IF acts = <<>> THEN <<>>
    ELSE (IF owner[1] = i THEN <<acts[1]>> ELSE <<>>)
         \o ActionsOf(Tail(acts), Tail(owner), i)

\* 1. Consolidate system prompt to string
RECURSIVE JoinBlocks(_)
JoinBlocks(blocks) ==
    IF blocks = <<>> THEN <<>>
    ELSE IF Len(blocks) = 1 THEN blocks[1]
         ELSE blocks[1] \o Separator \o JoinBlocks(Tail(blocks))

Consolidate(system) ==
    IF system.kind = "string" THEN system.s
    ELSE IF system.kind = "array" THEN JoinBlocks(system.blocks)
         ELSE <<>>

\* one pattern of a rule against the buffer
PromptPatternMatches(pattern, current_system) ==
    IF pattern = <<"A", "L", "L">> THEN TRUE
    ELSE IF IsRegex(pattern) THEN RegexMatch(pattern, current_system)
         ELSE GlobMatch(pattern, current_system)

\* all_matched
AllMatched(rule, current_system) ==
    \A k \in 1..Len(rule.match) :
        PromptPatternMatches(rule.match[k], current_system)

\* re.replace_all for a regex of letters
RECURSIVE ReplaceAll(_, _, _)
ReplaceAll(s, pattern, with) ==
    IF s = <<>> THEN <<>>
    ELSE IF StartsWith(s, pattern)
         THEN with \o ReplaceAll(SubSeq(s, Len(pattern) + 1, Len(s)), pattern, with)
         ELSE <<Head(s)>> \o ReplaceAll(Tail(s), pattern, with)

FirstUser(messages) ==
    IF \E i \in 1..Len(messages) : messages[i].role = "user"
    THEN CHOOSE i \in 1..Len(messages) :
            /\ messages[i].role = "user"
            /\ \A j \in 1..(i - 1) : messages[j].role # "user"
    ELSE 0

inject_into_first_user_message(messages, content) ==
    IF content = <<>> THEN messages
    ELSE IF FirstUser(messages) = 0
         THEN <<[role |-> "user", content |-> TextContent(content)]>> \o messages
         ELSE LET i == FirstUser(messages)
                  c == messages[i].content
              IN [messages EXCEPT ![i].content =
                    IF c.kind = "string"
                    THEN TextContent(content \o Separator \o c.s)
                    ELSE TextBlocksContent(<<content>> \o c.blocks)]

\* one arm of `match action`; st is the buffer and the messages
ApplyAction(st, action) ==
    CASE action.type = "replace" ->
           IF IsRegex(action.pattern)
           THEN [st EXCEPT !.current_system = ReplaceAll(@, action.pattern, action.with)]
           ELSE st
      [] action.type = "prepend" ->
           [st EXCEPT !.current_system =
               IF @ # <<>> THEN action.value \o Separator \o @ ELSE action.value]
      [] action.type = "append" ->
           [st EXCEPT !.current_system =
               IF @ # <<>> THEN @ \o Separator \o action.value ELSE action.value]
      [] action.type = "move_to_user" ->
           LET moved_content ==
                   (IF action.prefix # NoString THEN action.prefix ELSE <<>>)
                   \o st.current_system
                   \o (IF action.suffix # NoString THEN action.suffix ELSE <<>>)
           IN [current_system |->
                   IF action.forced_system_prompt # NoString
                   THEN action.forced_system_prompt ELSE <<>>,
               messages |-> inject_into_first_user_message(st.messages, moved_content)]
      [] action.type = "delete" ->
           [st EXCEPT !.current_system = <<>>]

\* The actions of a rule applied last to first.
RECURSIVE ApplyActionsReversed(_, _)
ApplyActionsReversed(st, actions) ==
    IF actions = <<>> THEN st
    ELSE ApplyAction(ApplyActionsReversed(st, Tail(actions)), Head(actions))

\* Apply Actions sequentially
RECURSIVE ApplyActions(_, _)
ApplyActions(st, actions) ==
    IF actions = <<>> THEN st
    ELSE ApplyActions(ApplyAction(st, Head(actions)), Tail(actions))

\* Every rule is matched against the system prompt of the request.
RECURSIVE RunRulesOnOriginal(_, _, _)
RunRulesOnOriginal(st, rules, trace) ==
    IF rules = <<>> THEN [st |-> st, trace |-> trace]
    ELSE LET original == IF trace = <<>> THEN st.current_system
                         ELSE trace[1].before
             all_matched == AllMatched(Head(rules), original)
             next == IF all_matched THEN ApplyActions(st, Head(rules).actions)
                     ELSE st
         IN RunRulesOnOriginal(next, Tail(rules),
                Append(trace, [before |-> st.current_system,
                               matched |-> all_matched,
                               after |-> next.current_system]))

\* 2. Find matching rules: the loop over the rules; trace keeps, for every
\* rule, the buffer it was matched against, all_matched and the buffer it
\* left
RECURSIVE RunRules(_, _, _)
RunRules(st, rules, trace) ==
    IF rules = <<>> THEN [st |-> st, trace |-> trace]
    ELSE LET all_matched == AllMatched(Head(rules), st.current_system)
             next == IF all_matched THEN ApplyActions(st, Head(rules).actions)
                     ELSE st
         IN RunRules(next, Tail(rules),
                Append(trace, [before |-> st.current_system,
                               matched |-> all_matched,
                               after |-> next.current_system]))

\* Finalize: update req.system with the modified buffer
Finalize(current_system) ==
    IF current_system = <<>> THEN SystemNone ELSE SystemString(current_system)

PatcherOnRequest(req, rules) ==
    IF rules = <<>> THEN [req |-> req, trace |-> <<>>]
    ELSE LET run == RunRules([current_system |-> Consolidate(req.system),
                              messages |-> req.messages], rules, <<>>)
         IN [req |-> [system |-> Finalize(run.st.current_system),
                      messages |-> run.st.messages],
             trace |-> run.trace]

PatcherInit ==
    /\ StreamIdle
    /\ HandlerIdle
    /\ MiddlewareIdle
    /\ SseIdle
    /\ ConvertIdle
    /\ prep = [pc |-> "idle"]
    /\ filter = [pc |-> "idle"]
    /\ UtilIdle
    /\ \E n \in 0..MaxPromptRules, k \in 0..MaxActions :
         \E matches \in [1..n -> MatchLists], acts \in [1..k -> PromptOps] :
           \E owner \in {o \in [1..k -> 1..n] :
                           \A i \in 1..(k - 1) : o[i] <= o[i + 1]},
              system \in PatcherSystems, messages \in PatcherMessages :
             LET req == [system |-> system, messages |-> messages]
             IN patcher =
                  [pc |-> "request",
                   rules |-> [i \in 1..n |->
                                [match |-> matches[i],
                                 actions |-> ActionsOf(acts, owner, i)]],
                   req_in |-> req, req |-> req, trace |-> <<>>]

PatchRequest ==
    /\ patcher.pc = "request"
    /\ LET result == PatcherOnRequest(patcher.req_in, patcher.rules)
       IN patcher' = [patcher EXCEPT !.pc = "done", !.req = result.req,
                                     !.trace = result.trace]
    /\ UNCHANGED <<streamVars, handlerVars, middlewareVars, sseVars, convertVars,
                   prep, filter, utilVars>>

PatcherNext == PatchRequest

PatcherSpec == PatcherInit /\ [][PatcherNext]_vars

(***************************************************************************)
(* Config::resolve_models and resolve_single_model (src/src/config.rs).    *)
(* A model's key is a number; the table maps the keys it holds to the      *)
(* `extends` of the model (None when absent).                              *)
(***************************************************************************)
ModelKeys == 1..MaxModels

ModelTables ==
    UNION {[keys -> ModelKeys \cup {None}] : keys \in SUBSET ModelKeys}

\* A cycle is reported once the stack holds two models.
RECURSIVE resolve_by_depth(_, _, _)
resolve_by_depth(models, key, stack) ==
    IF Len(stack) >= 2
    THEN [kind |-> "cyclic", merged |-> <<>>, calls |-> 1]
    ELSE IF key \notin DOMAIN models
         THEN [kind |-> "not_found", merged |-> <<>>, calls |-> 1]
         ELSE IF models[key] # None
              THEN LET parent == resolve_by_depth(models, models[key], Append(stack, key))
                   IN IF parent.kind # "ok"
                      THEN [parent EXCEPT !.calls = @ + 1]
                      ELSE [kind |-> "ok", merged |-> Append(parent.merged, key),
                            calls |-> parent.calls + 1]
              ELSE [kind |-> "ok", merged |-> <<key>>, calls |-> 1]

\* resolve_single_model; merged is the models that merge_models folded,
\* the root of the chain first, and calls the number of calls it took
RECURSIVE resolve_single_model(_, _, _)
resolve_single_model(models, key, stack) ==
    IF \E i \in 1..Len(stack) : stack[i] = key
    THEN [kind |-> "cyclic", merged |-> <<>>, calls |-> 1]
    ELSE IF key \notin DOMAIN models
         THEN [kind |-> "not_found", merged |-> <<>>, calls |-> 1]
         ELSE IF models[key] # None
              THEN LET parent == resolve_single_model(models, models[key], Append(stack, key))
                   IN IF parent.kind # "ok"
                      THEN [parent EXCEPT !.calls = @ + 1]
                      ELSE [kind |-> "ok", merged |-> Append(parent.merged, key),
                            calls |-> parent.calls + 1]
              ELSE [kind |-> "ok", merged |-> <<key>>, calls |-> 1]

LoaderInit ==
    /\ StreamIdle
    /\ HandlerIdle
    /\ MiddlewareIdle
    /\ SseIdle
    /\ ConvertIdle
    /\ HooksIdle
    /\ merge = [pc |-> "idle"]
    /\ latch = [pc |-> "idle"]
    /\ chain = [pc |-> "idle"]
    /\ recorder = [pc |-> "idle"]
    /\ \E models \in ModelTables : loader = [pc |-> "parsed", models |-> models]

\* resolve_models: the keys are taken in the order of the HashMap, and the
\* first one that fails ends the loop, so any failing key may be the one
ResolveModels ==
    /\ loader.pc = "parsed"
    /\ LET models == loader.models
           resolved == [key \in DOMAIN models |-> resolve_single_model(models, key, <<>>)]
           failing == {key \in DOMAIN models : resolved[key].kind # "ok"}
       IN \E first \in IF failing = {} THEN {None} ELSE failing :
            loader' = [pc |-> "done", models |-> models, resolved |-> resolved,
                       result |-> IF first = None THEN "ok" ELSE resolved[first].kind]
    /\ UNCHANGED <<streamVars, handlerVars, middlewareVars, sseVars, convertVars,
                   hookVars, merge, latch, chain, recorder>>

LoaderNext == ResolveModels

LoaderSpec == LoaderInit /\ [][LoaderNext]_vars

(***************************************************************************)
(* deep_merge_json (src/src/config.rs), over the JSON objects of the body. *)
(***************************************************************************)
\* Every key of the override replaces the base's value.
deep_merge_json_shallow(base, override_map) == InsertAll(base, override_map)

\* the loop over override_map, one entry at a time; the keys of a map are
\* distinct, so the order in which the HashMap hands them out does not
\* change the result
RECURSIVE deep_merge_json(_, _)
deep_merge_json(base, override_map) ==
    IF DOMAIN override_map = {} THEN base
    ELSE LET k == CHOOSE key \in DOMAIN override_map : TRUE
             v == override_map[k]
             rest == [key \in (DOMAIN override_map) \ {k} |-> override_map[key]]
             result ==
                 IF k \in DOMAIN base
                 THEN IF base[k].kind = "object" /\ v.kind = "object"
                      THEN [base EXCEPT ![k] = JsonObject(deep_merge_json(base[k].o, v.o))]
                      ELSE [base EXCEPT ![k] = v]
                 ELSE [key \in (DOMAIN base) \cup {k} |->
                          IF key = k THEN v ELSE base[key]]
         IN deep_merge_json(result, rest)

MergeInit ==
    /\ StreamIdle
    /\ HandlerIdle
    /\ MiddlewareIdle
    /\ SseIdle
    /\ ConvertIdle
    /\ HooksIdle
    /\ loader = [pc |-> "idle"]
    /\ latch = [pc |-> "idle"]
    /\ chain = [pc |-> "idle"]
    /\ recorder = [pc |-> "idle"]
    /\ \E base \in Bodies("b"), override_map \in Bodies("e") :
         merge = [pc |-> "called", base |-> base, override_map |-> override_map,
                  merged |-> base]

DeepMergeJson ==
    /\ merge.pc = "called"
    /\ merge' = [merge EXCEPT !.pc = "returned",
                              !.merged = deep_merge_json(merge.base, merge.override_map)]
    /\ UNCHANGED <<streamVars, handlerVars, middlewareVars, sseVars, convertVars,
                   hookVars, loader, latch, chain, recorder>>

MergeNext == DeepMergeJson

MergeSpec == MergeInit /\ [][MergeNext]_vars

(***************************************************************************)
(* report_tools_once and the handlers that call it (src/src/handlers.rs).  *)
(* Every handler runs handle_messages for one request; tools_reported is   *)
(* the AtomicBool of the shared AppState.                                  *)
(***************************************************************************)
Handlers == 1..MaxHandlers

\* A load in the place of the swap: the flag is read and left as it is.
load_only(flag, val) == [previous |-> flag, flag |-> flag]

\* AtomicBool::swap(val, Ordering::Relaxed): one atomic step that stores
\* val and returns the previous value
swap(flag, val) == [previous |-> flag, flag |-> val]

LatchInit ==
    /\ StreamIdle
    /\ HandlerIdle
    /\ MiddlewareIdle
    /\ SseIdle
    /\ ConvertIdle
    /\ HooksIdle
    /\ loader = [pc |-> "idle"]
    /\ merge = [pc |-> "idle"]
    /\ chain = [pc |-> "idle"]
    /\ recorder = [pc |-> "idle"]
    /\ \E tool_verbose \in BOOLEAN :
         latch = [pc |-> "serving",
                  tool_verbose |-> tool_verbose,
                  tools_reported |-> FALSE,
                  at |-> [h \in Handlers |-> "received"],
                  swapped |-> <<>>,
                  reports |-> <<>>]

\* handle_messages returns before line 190 (no route, invalid request)
ReturnEarly(h) ==
    /\ latch.pc = "serving"
    /\ latch.at[h] = "received"
    /\ latch' = [latch EXCEPT !.at[h] = "returned"]
    /\ UNCHANGED <<streamVars, handlerVars, middlewareVars, sseVars, convertVars,
                   hookVars, loader, merge, chain, recorder>>

\* convert_request succeeded: the handler stands before line 190
Converted(h) ==
    /\ latch.pc = "serving"
    /\ latch.at[h] = "received"
    /\ latch' = [latch EXCEPT !.at[h] = "converted"]
    /\ UNCHANGED <<streamVars, handlerVars, middlewareVars, sseVars, convertVars,
                   hookVars, loader, merge, chain, recorder>>

\* if state.tool_verbose { report_tools_once(..) }, up to the swap
ReportToolsOnce(h) ==
    /\ latch.pc = "serving"
    /\ latch.at[h] = "converted"
    /\ IF latch.tool_verbose
       THEN LET swapped == swap(latch.tools_reported, TRUE)
            IN latch' = [latch EXCEPT
                           !.tools_reported = swapped.flag,
                           !.swapped = Append(@, h),
                           !.at[h] = IF ~swapped.previous THEN "reporting"
                                     ELSE "continuing"]
       ELSE latch' = [latch EXCEPT !.at[h] = "continuing"]
    /\ UNCHANGED <<streamVars, handlerVars, middlewareVars, sseVars, convertVars,
                   hookVars, loader, merge, chain, recorder>>

\* the info! lines of the report
EmitReport(h) ==
    /\ latch.pc = "serving"
    /\ latch.at[h] = "reporting"
    /\ latch' = [latch EXCEPT !.reports = Append(@, h), !.at[h] = "continuing"]
    /\ UNCHANGED <<streamVars, handlerVars, middlewareVars, sseVars, convertVars,
                   hookVars, loader, merge, chain, recorder>>

\* the rest of handle_messages
Continue(h) ==
    /\ latch.pc = "serving"
    /\ latch.at[h] = "continuing"
    /\ latch' = [latch EXCEPT !.at[h] = "returned"]
    /\ UNCHANGED <<streamVars, handlerVars, middlewareVars, sseVars, convertVars,
                   hookVars, loader, merge, chain, recorder>>

LatchNext ==
    \E h \in Handlers :
        \/ ReturnEarly(h)
        \/ Converted(h)
        \/ ReportToolsOnce(h)
        \/ EmitReport(h)
        \/ Continue(h)

LatchSpec == LatchInit /\ [][LatchNext]_vars

(***************************************************************************)
(* The on_request chain of handle_messages (src/src/handlers.rs): the tool *)
(* filter, the system prompt patcher and, when enable_exit_tool is set,    *)
(* the tool enforcer, in this order.                                       *)
(***************************************************************************)
\* the tool names of the chain's requests, letter by letter, as the
\* filter's patterns are matched against them
Spelling ==
    [name \in ToolNames |->
        IF name = ExitTool THEN <<"E", "x", "i", "t", "T", "o", "o", "l">>
        ELSE <<"t">>]

ChainPatterns == {<<"E">>, <<"t">>, <<"*", "l">>}

ChainPatternLists ==
    {[present |-> FALSE, list |-> <<>>]} \cup
    {[present |-> TRUE, list |-> l] :
        l \in UNION {[1..n -> ChainPatterns] : n \in 0..MaxPatterns}}

\* tool_filter_config: the profile's tool_filters or else the global ones
ChainFilterConfigs ==
    {[present |-> FALSE, allow |-> [present |-> FALSE, list |-> <<>>],
      deny |-> [present |-> FALSE, list |-> <<>>]]}
    \cup [present : {TRUE}, allow : ChainPatternLists, deny : ChainPatternLists]

\* system_prompts: the profile's rules or else the global ones
ChainRuleLists ==
    {<<>>,
     <<[match |-> <<<<"A", "L", "L">>>>,
        actions |-> <<MoveToUserOp(<<"a">>, <<"<">>, <<">">>)>>]>>}

ChainRequests ==
    [tools : ToolLists, tool_choice : {"None", "any"},
     system : {SystemNone, SystemString(<<"a", "b">>)},
     messages : {<<[role |-> "user", content |-> TextContent(<<"u">>)]>>}]

\* ToolFilterMiddleware::on_request on a request of the chain
ChainFilter(req, cfg) ==
    LET spelled == [req EXCEPT !.tools.list =
                       [k \in 1..Len(@) |-> Spelling[@[k]]]]
        left == ToolFilterOnRequest(spelled, cfg)
    IN [req EXCEPT !.tools.list =
          [k \in 1..Len(left.tools.list) |->
              CHOOSE name \in ToolNames : Spelling[name] = left.tools.list[k]]]

\* SystemPromptPatcherMiddleware::on_request on a request of the chain
ChainPatcher(req, rules) ==
    LET patched == PatcherOnRequest([system |-> req.system,
                                     messages |-> req.messages], rules).req
    IN [req EXCEPT !.system = patched.system, !.messages = patched.messages]

\* The enforcer is pushed first and the filter runs after it.
OnRequestEnforcerFirst(req, cfg, rules, enable_exit_tool) ==
    LET enforced == IF enable_exit_tool THEN EnforcerOnRequest(req) ELSE req
    IN ChainPatcher(ChainFilter(enforced, cfg), rules)

\* Construct Middlewares, then `for m in &middlewares { m.on_request(..) }`;
\* no on_request of the three returns an error
OnRequestChain(req, cfg, rules, enable_exit_tool) ==
    LET patched == ChainPatcher(ChainFilter(req, cfg), rules)
    IN IF enable_exit_tool THEN EnforcerOnRequest(patched) ELSE patched

ChainInit ==
    /\ StreamIdle
    /\ HandlerIdle
    /\ MiddlewareIdle
    /\ SseIdle
    /\ ConvertIdle
    /\ HooksIdle
    /\ loader = [pc |-> "idle"]
    /\ merge = [pc |-> "idle"]
    /\ latch = [pc |-> "idle"]
    /\ recorder = [pc |-> "idle"]
    /\ \E req \in ChainRequests, cfg \in ChainFilterConfigs,
          rules \in ChainRuleLists, enable_exit_tool \in BOOLEAN :
         chain = [pc |-> "request", tool_filters |-> cfg, system_prompts |-> rules,
                  enable_exit_tool |-> enable_exit_tool, req_in |-> req, req |-> req]

RunOnRequest ==
    /\ chain.pc = "request"
    /\ chain' = [chain EXCEPT
                   !.pc = "converting",
                   !.req = OnRequestChain(chain.req_in, chain.tool_filters,
                                          chain.system_prompts,
                                          chain.enable_exit_tool)]
    /\ UNCHANGED <<streamVars, handlerVars, middlewareVars, sseVars, convertVars,
                   hookVars, loader, merge, latch, recorder>>

ChainNext == RunOnRequest

ChainSpec == ChainInit /\ [][ChainNext]_vars

(***************************************************************************)
(* record_stream (src/src/transformer/response.rs): the events of the      *)
(* converted stream pass through while a response is accumulated from      *)
(* them, which the callback receives at message_stop.                      *)
(***************************************************************************)
\* Result<AnthropicStreamEvent, anyhow::Error>
RecordedItem(ok, type, index, kind, text) ==
    [ok |-> ok, type |-> type, index |-> index, kind |-> kind, text |-> text]

StreamError == RecordedItem(FALSE, "error", None, "", <<>>)

RecordedItems ==
    {StreamError,
     RecordedItem(TRUE, "message_start", None, "", <<>>),
     RecordedItem(TRUE, "content_block_start", 0, "text", <<>>),
     RecordedItem(TRUE, "content_block_start", 1, "tool_use", <<>>),
     RecordedItem(TRUE, "content_block_delta", 0, "text_delta", <<"a">>),
     RecordedItem(TRUE, "content_block_delta", 1, "input_json_delta", <<"1">>),
     RecordedItem(TRUE, "content_block_delta", 1, "input_json_delta", <<"{">>),
     RecordedItem(TRUE, "content_block_stop", 0, "", <<>>),
     RecordedItem(TRUE, "message_delta", None, "end_turn", <<>>),
     RecordedItem(TRUE, "message_stop", None, "", <<>>)}

\* AnthropicContentBlock: the text of a text or thinking block, the input of
\* a tool_use block (<<>> is the empty object it starts with)
RecordedBlock(type, text, input) == [type |-> type, text |-> text, input |-> input]

\* the message of message_start
StartedMessage == [content |-> <<>>, stop_reason |-> "None"]

NoResponse == [present |-> FALSE, resp |-> StartedMessage]

\* serde_json::from_str of a string of the letters "1" and "{"
ParsesAsJson(json_str) ==
    /\ json_str # <<>>
    /\ \A k \in 1..Len(json_str) : json_str[k] = "1"

\* resp.content after the dummy blocks are pushed and content[index] is set
WithBlock(content, index, block) ==
    [k \in 1..(IF Len(content) > index + 1 THEN Len(content) ELSE index + 1) |->
        IF k = index + 1 THEN block
        ELSE IF k <= Len(content) THEN content[k]
        ELSE RecordedBlock("text", <<>>, <<>>)]

\* Finalize tool inputs: every drained buffer that parses replaces the input
\* of the tool_use block at its index
Finalized(resp, partial_tool_inputs) ==
    [resp EXCEPT !.content =
        [k \in 1..Len(@) |->
            IF /\ @[k].type = "tool_use"
               /\ (k - 1) \in DOMAIN partial_tool_inputs
               /\ ParsesAsJson(partial_tool_inputs[k - 1])
            THEN [@[k] EXCEPT !.input = partial_tool_inputs[k - 1]]
            ELSE @[k]]]

\* The response and the callback are left in place at message_stop.
ObserveWithoutTake(st, event) ==
    IF event.type = "message_stop" /\ st.accumulated_response.present
    THEN [st EXCEPT !.calls = Append(@, Finalized(st.accumulated_response.resp,
                                                  st.partial_tool_inputs))]
    ELSE IF event.type = "message_start"
    THEN [st EXCEPT !.accumulated_response =
                       [present |-> TRUE, resp |-> StartedMessage]]
    ELSE st

\* the match on an Ok event
Observe(st, event) ==
    LET acc == st.accumulated_response
        content == acc.resp.content
    IN CASE event.type = "message_start" ->
              [st EXCEPT !.accumulated_response =
                            [present |-> TRUE, resp |-> StartedMessage]]
         [] event.type = "content_block_start" ->
              IF acc.present
              THEN [st EXCEPT !.accumulated_response.resp.content =
                      WithBlock(content, event.index,
                                RecordedBlock(event.kind, <<>>, <<>>))]
              ELSE st
         [] event.type = "content_block_delta" ->
              IF acc.present /\ event.index < Len(content)
              THEN LET block == content[event.index + 1]
                   IN IF block.type = "text" /\ event.kind = "text_delta"
                      THEN [st EXCEPT
                              !.accumulated_response.resp.content[event.index + 1].text =
                                  @ \o event.text]
                      ELSE IF /\ block.type = "tool_use"
                              /\ event.kind = "input_json_delta"
                      THEN [st EXCEPT !.partial_tool_inputs =
                              [i \in DOMAIN @ \cup {event.index} |->
                                  (IF i \in DOMAIN @ THEN @[i] ELSE <<>>)
                                  \o (IF i = event.index THEN event.text ELSE <<>>)]]
                      ELSE st
              ELSE st
         [] event.type = "message_delta" ->
              IF acc.present
              THEN [st EXCEPT !.accumulated_response.resp.stop_reason = event.kind]
              ELSE st
         [] event.type = "message_stop" ->
              IF acc.present
              THEN LET resp == Finalized(acc.resp, st.partial_tool_inputs)
                       taken == [st EXCEPT !.accumulated_response = NoResponse,
                                           !.partial_tool_inputs = <<>>]
                   IN IF st.callback_opt
                      THEN [taken EXCEPT !.callback_opt = FALSE,
                                         !.calls = Append(@, resp)]
                      ELSE taken
              ELSE st
         [] OTHER -> st

RecorderInit ==
    /\ StreamIdle
    /\ HandlerIdle
    /\ MiddlewareIdle
    /\ SseIdle
    /\ ConvertIdle
    /\ HooksIdle
    /\ loader = [pc |-> "idle"]
    /\ merge = [pc |-> "idle"]
    /\ latch = [pc |-> "idle"]
    /\ chain = [pc |-> "idle"]
    /\ \E n \in 0..MaxItems :
         \E input_stream \in [1..n -> RecordedItems] :
            recorder = [pc |-> "streaming", input_stream |-> input_stream,
                        polled |-> 0, yielded |-> <<>>,
                        accumulated_response |-> NoResponse,
                        callback_opt |-> TRUE,
                        partial_tool_inputs |-> <<>>,
                        calls |-> <<>>]

\* one turn of `while let Some(event_res) = input_stream.next().await`:
\* the event is looked at if it is Ok, and yielded in either case
YieldNext ==
    /\ recorder.pc = "streaming"
    /\ recorder.polled < Len(recorder.input_stream)
    /\ LET event_res == recorder.input_stream[recorder.polled + 1]
           seen == IF event_res.ok THEN Observe(recorder, event_res) ELSE recorder
       IN recorder' = [seen EXCEPT !.polled = @ + 1,
                                   !.yielded = Append(@, event_res)]
    /\ UNCHANGED <<streamVars, handlerVars, middlewareVars, sseVars, convertVars,
                   hookVars, loader, merge, latch, chain>>

\* input_stream.next() is None: the stream ends
EndOfStream ==
    /\ recorder.pc = "streaming"
    /\ recorder.polled = Len(recorder.input_stream)
    /\ recorder' = [recorder EXCEPT !.pc = "done"]
    /\ UNCHANGED <<streamVars, handlerVars, middlewareVars, sseVars, convertVars,
                   hookVars, loader, merge, latch, chain>>

RecorderNext == YieldNext \/ EndOfStream

RecorderSpec == RecorderInit /\ [][RecorderNext]_vars

(***************************************************************************)
(* Properties of the streamed response.                                    *)
(***************************************************************************)
NoUpstreamError == \A k \in 1..Len(chunks) : ~chunks[k].error

Positions(type) == {k \in 1..Len(out) : out[k].type = type}

IsBlockEvent(e) ==
    e.type \in {"content_block_start", "content_block_delta", "content_block_stop"}

\* C1: in the events of a finished stream without upstream error, every
\* content_block_start at index i is matched by exactly one
\* content_block_stop at index i, and every event between the two is a
\* content_block_delta at index i.
C1_BlocksMatched ==
    (spc = "done" /\ NoUpstreamError) =>
        \A k \in Positions("content_block_start") :
            /\ Cardinality({m \in Positions("content_block_stop") :
                                out[m].index = out[k].index}) = 1
            /\ \E m \in Positions("content_block_stop") :
                 /\ m > k
                 /\ out[m].index = out[k].index
                 /\ \A j \in (k + 1)..(m - 1) :
                      /\ out[j].type = "content_block_delta"
                      /\ out[j].index = out[k].index

\* C2: the events of a finished stream without upstream error begin with
\* message_start, then ping; message_start occurs once; the last event is
\* message_stop. The empty upstream sequence is included.
C2_StartPingStop ==
    (spc = "done" /\ NoUpstreamError) =>
        /\ Len(out) >= 3
        /\ out[1] = MessageStart
        /\ out[2] = Ping
        /\ Cardinality(Positions("message_start")) = 1
        /\ out[Len(out)] = MessageStop

\* C3: the indices of the content_block_start events are, in emission order,
\* 0, 1, 2, ... without a gap.
C3_IndicesContiguous ==
    \A k \in Positions("content_block_start") :
        out[k].index = Cardinality({j \in Positions("content_block_start") : j < k})

\* C4: open_block_indices never holds more than one index.
C4_AtMostOneOpen == Cardinality(state.open_block_indices) <= 1

\* C5: when the upstream yields an error, the events of the finished stream
\* hold exactly one error event and nothing after it (no message_stop).
C5_ErrorTerminates ==
    (spc = "done" /\ ~NoUpstreamError) =>
        /\ Cardinality(Positions("error")) = 1
        /\ out[Len(out)] = ErrorEvent

\* C6: a finished stream without upstream error holds exactly one
\* message_delta with a stop_reason; it comes after every content block
\* event and before message_stop.
C6_OneStopReasonDelta ==
    (spc = "done" /\ NoUpstreamError) =>
        LET D == {k \in Positions("message_delta") : out[k].kind # "None"}
        IN /\ Cardinality(D) = 1
           /\ \A k \in D :
                /\ \A j \in 1..Len(out) : IsBlockEvent(out[j]) => j < k
                /\ \A j \in Positions("message_stop") : k < j
           /\ \A i \in {out[k].index : k \in Positions("content_block_start")} :
                \E m \in Positions("content_block_stop") : out[m].index = i

\* The non-empty fragments a chunk carries, in the order reasoning,
\* reasoning_content, content, tool-call arguments, each with the delta
\* type it is to be emitted as.
Fragment(delta, v) == IF v > 0 THEN <<<<delta, v>>>> ELSE <<>>

RECURSIVE ArgumentFragments(_, _)
ArgumentFragments(calls, k) ==
    IF k > Len(calls) THEN <<>>
    ELSE Fragment("input_json_delta", calls[k].function.arguments)
         \o ArgumentFragments(calls, k + 1)

FragmentsOfChunk(ch) ==
    IF ch.error \/ Len(ch.choices) = 0 THEN <<>>
    ELSE LET d == ch.choices[1].delta
         IN Fragment("thinking_delta", d.reasoning)
            \o Fragment("thinking_delta", d.reasoning_content)
            \o Fragment("text_delta", d.content)
            \o ArgumentFragments(d.tool_calls.calls, 1)

RECURSIVE FragmentsReceived(_, _)
FragmentsReceived(items, k) ==
    IF k > Len(items) THEN <<>>
    ELSE FragmentsOfChunk(items[k]) \o FragmentsReceived(items, k + 1)

RECURSIVE DeltasEmitted(_, _)
DeltasEmitted(events, k) ==
    IF k > Len(events) THEN <<>>
    ELSE (IF events[k].type = "content_block_delta" /\ events[k].payload > 0
          THEN <<<<events[k].kind, events[k].payload>>>> ELSE <<>>)
         \o DeltasEmitted(events, k + 1)

\* C7: every non-empty reasoning, content and tool-call-arguments fragment
\* received is emitted as exactly one content_block_delta of its type, in
\* the order of arrival.
C7_FragmentsPreserved ==
    DeltasEmitted(out, 1) = FragmentsReceived(chunks, 1)

(***************************************************************************)
(* Properties of the router and of the handler.                            *)
(***************************************************************************)
CurrentRules == config.profiles[config.current_profile]

\* The request's feature set.
FeatureSet ==
    {f \in FeatureNames : (f = "vision" /\ payload.has_images)
                          \/ (f = "reasoning" /\ payload.thinking)}

\* A rule matches: its pattern matches the alias, and match_features is
\* empty or shares a feature with the request.
RuleMatches(rule) ==
    /\ GlobMatch(rule.pattern, payload.model)
    /\ (rule.match_features = {} \/ rule.match_features \cap FeatureSet # {})

MatchingRules == {k \in 1..Len(CurrentRules) : RuleMatches(CurrentRules[k])}

\* C8: the resolved logical model is the selected rule's reasoning_target
\* when that is set and the request has thinking, and its target otherwise.
C8_ReasoningTarget ==
    (hpc = "resolved" /\ route.rule # 0) =>
        LET rule == CurrentRules[route.rule]
        IN route.target_logical_id =
             IF rule.reasoning_target # NoString /\ "reasoning" \in FeatureSet
             THEN rule.reasoning_target
             ELSE rule.target

\* C9: resolve_via_rules returns at the first rule, in declaration order,
\* that matches; when no rule matches it returns the inbound alias.
C9_FirstMatchWins ==
    hpc = "resolved" =>
        IF MatchingRules = {}
        THEN route.rule = 0 /\ route.target_logical_id = payload.model
        ELSE /\ route.rule \in MatchingRules
             /\ \A k \in MatchingRules : route.rule <= k

\* C9 witness: the second rule is returned although the first rule's pattern
\* matches too, the second sharing one of its two features with the request.
C9_Witness ==
    /\ hpc = "resolved"
    /\ route.rule = 2
    /\ GlobMatch(CurrentRules[1].pattern, payload.model)
    /\ CurrentRules[2].match_features = FeatureNames
    /\ Cardinality(FeatureSet) = 1

\* C10: with no_ant set and a resolved wire model that contains "anthropic"
\* in any letter case, the request is answered 403 and no POST is sent to
\* the upstream, streaming or not.
C10_NoAntForbidden ==
    (/\ hpc \notin {"idle", "received"}
     /\ route.wire_model # <<>>
     /\ config.no_ant
     /\ Contains(ToLowercase(route.wire_model), Anthropic)) =>
        /\ hpc = "done"
        /\ response = 403
        /\ upstream_posts = 0

\* C10 witness: a streaming request whose wire model spells Anthropic with a
\* capital letter has been answered 403.
C10_Witness ==
    /\ hpc = "done"
    /\ response = 403
    /\ payload.stream
    /\ config.no_ant
    /\ ~Contains(route.wire_model, Anthropic)
    /\ upstream_posts = 0

(***************************************************************************)
(* Properties of the overrides and of execute_upstream_request.            *)
(***************************************************************************)
\* The request's model string is OVERRIDE-MODEL-<id>.
IsModelOverride ==
    /\ Len(payload.model) >= Len(OverrideModelPrefix)
    /\ \A i \in 1..Len(OverrideModelPrefix) : payload.model[i] = OverrideModelPrefix[i]

\* The request's model string is OVERRIDE-<name> and not OVERRIDE-MODEL-<id>.
IsProfileOverride ==
    /\ ~IsModelOverride
    /\ Len(payload.model) >= Len(OverridePrefix)
    /\ \A i \in 1..Len(OverridePrefix) : payload.model[i] = OverridePrefix[i]

Remainder(prefix) ==
    [i \in 1..(Len(payload.model) - Len(prefix)) |-> payload.model[Len(prefix) + i]]

\* C11: a request for OVERRIDE-<name>, <name> not a configured profile, is
\* answered 400 and no POST is sent to the upstream.
C11_UnknownProfileBadRequest ==
    (/\ hpc \notin {"idle", "received"}
     /\ IsProfileOverride
     /\ Remainder(OverridePrefix) \notin DOMAIN config.profiles) =>
        /\ hpc = "done"
        /\ response = 400
        /\ upstream_posts = 0

\* C12: check_overrides yields at most one of a profile override and a model
\* override: for OVERRIDE-MODEL-<id> only the model override <id>, which is
\* then the logical model with no rule evaluated; for OVERRIDE-<name> only
\* the profile override <name>; for any other string neither.
C12_OverridesExclusive ==
    hpc # "idle" =>
        LET ov == check_overrides(payload.model)
        IN /\ ov.profile = NoString \/ ov.model = NoString
           /\ IsModelOverride =>
                /\ ov = [profile |-> NoString, model |-> Remainder(OverrideModelPrefix)]
                /\ hpc # "received" =>
                     /\ route.rule = 0
                     /\ route.target_logical_id = Remainder(OverrideModelPrefix)
           /\ IsProfileOverride =>
                ov = [profile |-> Remainder(OverridePrefix), model |-> NoString]
           /\ (~IsModelOverride /\ ~IsProfileOverride) =>
                ov = [profile |-> NoString, model |-> NoString]

\* C12 witness: OVERRIDE-MODEL-op is sent on to the upstream as the logical
\* model op although a rule of the current profile matches the model string.
C12_Witness ==
    /\ hpc = "executing"
    /\ IsModelOverride
    /\ route.target_logical_id = Opus
    /\ route.rule = 0
    /\ MatchingRules # {}

\* Every attempt so far ended in a 5xx status or a connection error.
AllFailures ==
    \A k \in 1..Len(upstream_replies) :
        upstream_replies[k].kind = "conn" \/ upstream_replies[k].code >= 500

LastReply == upstream_replies[Len(upstream_replies)]

\* C13: when every attempt ends in a 5xx status or a connection error, the
\* executor makes max_retries + 1 attempts, sleeps backoff_ms * 2^(k-1)
\* before the k-th retry, and answers the last 5xx status, or 502 when the
\* last failure was a connection error.
C13_RetriesThenFails ==
    AllFailures =>
        LET n == MaxRetriesOf(config, route)
            b == BackoffOf(config, route)
        IN /\ hpc = "executing" /\ upstream_posts > 0 =>
                /\ upstream_posts <= n
                /\ Len(exec.sleeps) = upstream_posts
           /\ hpc = "done" /\ upstream_replies # <<>> =>
                /\ upstream_posts = n + 1
                /\ Len(upstream_replies) = n + 1
                /\ exec.sleeps = [k \in 1..n |-> b * 2^(k - 1)]
                /\ response = IF LastReply.kind = "conn" THEN 502 ELSE LastReply.code

\* C13 witness: three retries after 100, 200 and 400 ms, the last of four
\* failures a connection error, answered 502.
C13_Witness ==
    /\ hpc = "done"
    /\ AllFailures
    /\ Len(upstream_replies) = 4
    /\ upstream_replies[2].code = 503
    /\ LastReply.kind = "conn"
    /\ exec.sleeps = <<100, 200, 400>>
    /\ response = 502

\* C14: the adaptive context-length retry happens at most once and does not
\* use up the retry budget: a 5xx status or a connection error is returned
\* to the client only after max_retries retries of such failures.
C14_SeparateBudgets ==
    /\ exec.context_length_retries <= 1
    /\ (hpc = "done" /\ upstream_replies # <<>>
        /\ (LastReply.kind = "conn" \/ LastReply.code >= 500)) =>
           Cardinality({k \in 1..Len(upstream_replies) :
                            upstream_replies[k].kind = "conn"
                            \/ upstream_replies[k].code >= 500})
             = MaxRetriesOf(config, route) + 1

\* C15: a 4xx reply that is not a 400 matching the context-length pattern is
\* the last attempt, and the client is answered that status with the
\* upstream body, as JSON or wrapped as {error: raw}.
C15_ClientErrorsPassThrough ==
    \A k \in 1..Len(upstream_replies) :
        LET o == upstream_replies[k]
        IN (/\ o.kind = "status"
            /\ o.code >= 400 /\ o.code <= 499
            /\ ~(o.code = 400 /\ o.ctx # "none")) =>
               /\ k = Len(upstream_replies)
               /\ upstream_posts = k
               /\ hpc = "done"
               /\ response = o.code
               /\ response_body = IF o.json THEN "upstream_json" ELSE "wrapped"

\* C15 witness: a 404 with a body that is not JSON, met on the second
\* attempt with retries left, is answered as 404 with the wrapped body.
C15_Witness ==
    /\ hpc = "done"
    /\ Len(upstream_replies) = 2
    /\ LastReply.code = 404
    /\ ~LastReply.json
    /\ exec.attempts <= MaxRetriesOf(config, route)
    /\ response = 404
    /\ response_body = "wrapped"

(***************************************************************************)
(* Properties of the middleware hooks.                                     *)
(***************************************************************************)
\* C16: on_request, given a non-empty tools list, leaves the list ending in
\* an ExitTool definition, sets tool_choice to any unless it is pinned to a
\* tool, and appends a reminder to the system prompt; given no tools or an
\* empty list it leaves tools, tool_choice and system as they were.
C16_EnforcerOnRequest ==
    mw.pc \in {"upstream", "response", "done"} =>
        IF mw.req_in.tools.present /\ Len(mw.req_in.tools.list) > 0
        THEN /\ mw.req.tools.present
             /\ mw.req.tools.list \in {mw.req_in.tools.list,
                                       Append(mw.req_in.tools.list, ExitTool)}
             /\ \E k \in 1..Len(mw.req.tools.list) : mw.req.tools.list[k] = ExitTool
             /\ mw.req.tool_choice = IF mw.req_in.tool_choice = "tool" THEN "tool" ELSE "any"
             /\ mw.req.system.present
             /\ mw.req.system.text = Append(mw.req_in.system.text, "reminder")
        ELSE mw.req = mw.req_in

\* C17: on_response puts a text block carrying the response argument in the
\* place of every tool_use block named ExitTool, leaves every other block
\* where and as it was, and changes stop_reason only from tool_use to
\* end_turn; without an ExitTool block the response is unchanged.
C17_EnforcerOnResponse ==
    mw.pc = "done" =>
        LET IsExit(b) == b.type = "tool_use" /\ b.name = ExitTool
            has_exit == \E k \in 1..Len(mw.resp_in.content) : IsExit(mw.resp_in.content[k])
        IN /\ Len(mw.resp.content) = Len(mw.resp_in.content)
           /\ \A k \in 1..Len(mw.resp_in.content) :
                IF IsExit(mw.resp_in.content[k])
                THEN /\ mw.resp.content[k].type = "text"
                     /\ mw.resp_in.content[k].response # None =>
                          mw.resp.content[k].text = mw.resp_in.content[k].response
                ELSE mw.resp.content[k] = mw.resp_in.content[k]
           /\ mw.resp.stop_reason =
                IF has_exit /\ mw.resp_in.stop_reason = "tool_use"
                THEN "end_turn" ELSE mw.resp_in.stop_reason

(***************************************************************************)
(* Properties of transform_stream.                                         *)
(***************************************************************************)
\* The input events a and b start and stop a tool_use block named ExitTool,
\* and every event of that index in between is an input_json_delta.
ExitBlockAt(a, b) ==
    /\ a < b
    /\ enforcer.input[a].type = "content_block_start"
    /\ enforcer.input[a].kind = "tool_use"
    /\ enforcer.input[a].name = ExitTool
    /\ enforcer.input[b].type = "content_block_stop"
    /\ enforcer.input[b].index = enforcer.input[a].index
    /\ \A k \in (a + 1)..(b - 1) :
         enforcer.input[k].index = enforcer.input[a].index =>
            /\ enforcer.input[k].type = "content_block_delta"
            /\ enforcer.input[k].kind = "input_json_delta"

\* The fragments the block started at a and stopped at b received, in order.
FragmentsBetween(a, b) ==
    LET own == SelectSeq(SubSeq(enforcer.input, a + 1, b - 1),
                         LAMBDA e : e.index = enforcer.input[a].index)
    IN [k \in 1..Len(own) |-> own[k].payload]

\* C18: for an ExitTool block started at index i, given fragments of at most
\* 100 KiB that together are a JSON object with a string response, and then
\* stopped, transform_stream yields nothing for the block's start and
\* deltas, yields content_block_start(text), one text_delta carrying the
\* response and content_block_stop at index i for its stop, and turns the
\* stop_reason tool_use of the next message_delta into end_turn.
C18_ExitToolStreamed ==
    enforcer.pc # "idle" =>
      \A a, b \in 1..Len(enforcer.input) :
        (/\ ExitBlockAt(a, b)
         /\ BufferLen(FragmentsBetween(a, b)) <= BufferCap
         /\ ParseResponse(FragmentsBetween(a, b)) # None) =>
            LET i == enforcer.input[a].index
            IN /\ enforcer.yielded[a] = <<>>
               /\ \A k \in (a + 1)..(b - 1) :
                    enforcer.input[k].index = i => enforcer.yielded[k] = <<>>
               /\ enforcer.yielded[b] =
                    <<ContentBlockStart(i, "text"),
                      ContentBlockDelta(i, "text_delta",
                                        ParseResponse(FragmentsBetween(a, b))),
                      ContentBlockStop(i)>>
               /\ \A m \in (b + 1)..Len(enforcer.input) :
                    (/\ enforcer.input[m] = MessageDelta("tool_use", None)
                     /\ \A j \in (b + 1)..(m - 1) :
                          enforcer.input[j].type # "message_delta") =>
                       enforcer.yielded[m] = <<MessageDelta("end_turn", None)>>

(***************************************************************************)
(* Properties of the streaming path of handle_messages.                    *)
(***************************************************************************)
\* The events passed through the transform_stream hook of the middlewares
\* from the k-th on, in the order they were composed.
RECURSIVE TransformAll(_, _, _)
TransformAll(ms, k, events) ==
    IF k > Len(ms) THEN events
    ELSE TransformAll(ms, k + 1, MiddlewareTransformStream(ms[k], events))

\* C19: the events sent to the client of a streaming request are the events
\* of convert_stream passed through transform_stream of every middleware
\* composed for the request; with the exit tool enabled a lone ExitTool call
\* reaches the client as a text block and stop_reason end_turn.
C19_ClientGetsTransformed ==
    spc = "done" =>
        LET transformed == TransformAll(middlewares, 1, out)
        IN client = [k \in 1..Len(transformed) |-> SseEvent(transformed[k])]

(***************************************************************************)
(* Properties of parse_sse_stream.                                         *)
(***************************************************************************)
\* The body holds the line "data: [DONE]" at place k.
DoneLineAt(k) ==
    /\ k + 2 <= Len(sse.received)
    /\ k = 1 \/ sse.received[k - 1] = "\n"
    /\ sse.received[k] = "d"
    /\ sse.received[k + 1] = "D"
    /\ sse.received[k + 2] = "\n"

\* The place in the body of the line a yielded chunk comes from: the first
\* byte of the packet for its first line, the byte after the newline that
\* ends the line before it otherwise.
RECURSIVE LineStart(_, _)
LineStart(from, line) ==
    IF line = 1 THEN from
    ELSE IF sse.received[from] = "\n" THEN LineStart(from + 1, line - 1)
         ELSE LineStart(from + 1, line)

YieldAt(y) == LineStart(y.packet + 1, y.line)

\* C20: once a line "data: [DONE]" has been read, no chunk of a later line
\* is yielded, in the same segment, a later segment or a later network
\* chunk.
C20_DoneTerminates ==
    sse.pc # "idle" =>
        \A k \in 1..Len(sse.received) :
            DoneLineAt(k) =>
                \A i \in 1..Len(sse.yielded) : YieldAt(sse.yielded[i]) < k

\* C21: however the body was cut into network chunks, the chunks yielded
\* are those yielded for the whole body given as one network chunk, and
\* what is left in the buffer is the same too.
C21_PartitionIndependent ==
    sse.pc # "idle" =>
        LET whole == DrainBuffer(sse.received, 0)
        IN /\ sse.yielded = whole.yield
           /\ sse.buffer = whole.buffer

\* a body cut inside a codepoint and between the two newlines of a packet
\* boundary, whose chunk with the intact codepoint was yielded
C21_Witness ==
    /\ sse.pc = "done"
    /\ sse.cuts = {"codepoint", "boundary"}
    /\ \E i \in 1..Len(sse.yielded) : sse.yielded[i].content = <<"E">>

(***************************************************************************)
(* Properties of convert_request.                                          *)
(***************************************************************************)
\* the places in the upstream messages of those built for message i of the
\* request as the translation loop got it
PlacesFor(i) ==
    {k \in 1..Len(conv.openai.messages) : conv.openai.messages[k].from = i}

\* C22: for every message the translation loop is given (the request's
\* messages as the preprocessing left them), each tool_result block has
\* exactly one role:tool message, carrying its tool_use_id; these come in
\* block order and before the one message of the other blocks; messages
\* built for an earlier message come before those built for a later one.
C22_ToolResultsFirst ==
    conv.pc = "converted" =>
        LET outm == conv.openai.messages
            msgs == conv.pre.messages
        IN /\ \A k1, k2 \in 1..Len(outm) : k1 < k2 => outm[k1].from <= outm[k2].from
           /\ \A k \in 1..Len(outm) : outm[k].from \in 0..Len(msgs)
           /\ \A i \in 1..Len(msgs) :
                msgs[i].content.kind = "blocks" =>
                    LET blocks == msgs[i].content.blocks
                    IN /\ \A j \in 1..Len(blocks) :
                            blocks[j].type = "tool_result" =>
                                /\ Cardinality({k \in PlacesFor(i) :
                                       outm[k].role = "tool" /\ outm[k].block = j}) = 1
                                /\ \A k \in PlacesFor(i) :
                                       outm[k].role = "tool" /\ outm[k].block = j =>
                                           outm[k].tool_call_id = blocks[j].tool_use_id
                       /\ \A k \in PlacesFor(i) :
                            outm[k].role = "tool" =>
                                /\ outm[k].block \in 1..Len(blocks)
                                /\ blocks[outm[k].block].type = "tool_result"
                       /\ Cardinality({k \in PlacesFor(i) : outm[k].role # "tool"}) <= 1
                       /\ \A k1, k2 \in PlacesFor(i) :
                            k1 < k2 /\ outm[k2].role = "tool" =>
                                /\ outm[k1].role = "tool"
                                /\ outm[k1].block < outm[k2].block

\* a message whose tool_result block stands after a text block: the tool
\* message and then the message of the text
C22_Witness ==
    /\ conv.pc = "converted"
    /\ \E i \in 1..Len(conv.pre.messages) :
         /\ conv.pre.messages[i].content.kind = "blocks"
         /\ Len(conv.pre.messages[i].content.blocks) = 2
         /\ conv.pre.messages[i].content.blocks[1].type = "text"
         /\ conv.pre.messages[i].content.blocks[2].type = "tool_result"
         /\ Cardinality(PlacesFor(i)) = 2

\* The sanitizer ran on the request.
SanitizerOn ==
    /\ conv.pc = "converted"
    /\ conv.model_config.present
    /\ conv.model_config.preprocess.present
    /\ conv.model_config.preprocess.sanitize_tool_history = "true"

\* An assistant message before place i of a message list holds a tool_use
\* block of this id.
HasEarlierToolUse(messages, i, id) ==
    \E e \in 1..(i - 1) :
        /\ messages[e].role = "assistant"
        /\ messages[e].content.kind = "blocks"
        /\ \E j \in 1..Len(messages[e].content.blocks) :
              /\ messages[e].content.blocks[j].type = "tool_use"
              /\ messages[e].content.blocks[j].id = id

\* C23: with sanitize_tool_history on, every tool_result left in the
\* messages answers a tool_use of an earlier assistant message, and every
\* role:tool message sent upstream is built from such a tool_result.
C23_NoOrphanToolResults ==
    SanitizerOn =>
        /\ \A i \in 1..Len(conv.pre.messages) :
             conv.pre.messages[i].content.kind = "blocks" =>
                \A j \in 1..Len(conv.pre.messages[i].content.blocks) :
                    conv.pre.messages[i].content.blocks[j].type = "tool_result" =>
                        HasEarlierToolUse(conv.pre.messages, i,
                            conv.pre.messages[i].content.blocks[j].tool_use_id)
        /\ \A k \in 1..Len(conv.openai.messages) :
             conv.openai.messages[k].role = "tool" =>
                HasEarlierToolUse(conv.pre.messages, conv.openai.messages[k].from,
                                  conv.openai.messages[k].tool_call_id)

\* the ids of the tool_use blocks with an empty name of a message list
EmptyNameToolUseIds(messages) ==
    UNION {{messages[i].content.blocks[j].id :
               j \in {j \in 1..Len(messages[i].content.blocks) :
                        IsInvalidToolUse(messages[i].content.blocks[j])}} :
           i \in 1..Len(messages)}

\* the blocks of a list left when the tool_use blocks with an empty name and
\* the tool_result blocks of these ids are taken out
BlocksLeft(blocks, ids) ==
    SelectSeq(blocks, LAMBDA block :
        /\ ~IsInvalidToolUse(block)
        /\ ~(block.type = "tool_result" /\ block.tool_use_id \in ids))

\* the messages left: a message that had blocks and lost them all is
\* dropped, every other message is kept with the blocks left
RECURSIVE MessagesLeft(_, _)
MessagesLeft(messages, ids) ==
    IF messages = <<>> THEN <<>>
    ELSE LET msg == Head(messages)
             left == BlocksLeft(msg.content.blocks, ids)
         IN (IF msg.content.kind = "blocks" /\ msg.content.blocks # <<>> /\ left = <<>>
             THEN <<>>
             ELSE <<[msg EXCEPT !.content.blocks = left]>>)
            \o MessagesLeft(Tail(messages), ids)

\* C24: with sanitize_tool_history on, the messages after preprocessing are
\* the messages of the request without the tool_use blocks with an empty
\* name (in a message of any role), without the tool_result blocks of
\* their ids and without the messages this emptied; every other block and
\* message is there, in the original order.
C24_SanitizerFilters ==
    SanitizerOn =>
        conv.pre.messages =
            MessagesLeft(conv.req.messages, EmptyNameToolUseIds(conv.req.messages))

\* C25: with sanitize_tool_history on, the sanitizer applied to the messages
\* it produced gives these messages again.
C25_SanitizerIdempotent ==
    SanitizerOn => SanitizeToolHistory(conv.pre.messages) = conv.pre.messages

\* the sanitizer removed a tool_use with an empty name and left messages
C25_Witness ==
    /\ SanitizerOn
    /\ conv.pre.messages # conv.req.messages
    /\ conv.pre.messages # <<>>
    /\ EmptyNameToolUseIds(conv.req.messages) # {}

\* The three steps of the output limit, as the configuration orders them.
\* (1) the model's max_tokens replaces the value of the request
AfterOverride(requested, mc) ==
    IF mc.max_tokens # None THEN mc.max_tokens ELSE requested

\* (2) "auto" clears the value, a number of tokens sets it
AfterPolicy(current, policy) ==
    IF policy.kind = "string" /\ policy.s = "auto" THEN None
    ELSE IF policy.kind = "number" THEN policy.n
    ELSE current

\* (3) the cap clamps the value
AfterCap(current, cap) ==
    IF current = None \/ cap = None THEN current
    ELSE IF current <= cap THEN current ELSE cap

MaxOf(a, b) == IF a >= b THEN a ELSE b

\* C27: a force_reasoning of the model decides the reasoning sent upstream
\* whatever the thinking of the request and min_reasoning are; without it,
\* min_reasoning makes the reasoning only when the request has no thinking
\* (true is the effort "low"), and a minimum budget m with a thinking of
\* budget b gives max_tokens max(b, m); any other thinking is sent as its
\* budget.
C27_ReasoningPrecedence ==
    conv.pc = "converted" /\ conv.model_config.present =>
        LET force == conv.model_config.force_reasoning
            min == conv.model_config.min_reasoning
            b == conv.req.thinking
            r == conv.openai.reasoning
        IN /\ force.kind = "bool" => r = Effort(IF force.b THEN "medium" ELSE "none")
           /\ force.kind = "level" => r = Effort(force.lvl)
           /\ force.kind = "budget" => r = Budget(force.n)
           /\ force.kind = "none" /\ b = None =>
                /\ min.kind = "none" => r = NoReasoning
                /\ min.kind = "bool" => r = Effort(IF min.b THEN "low" ELSE "none")
                /\ min.kind = "level" => r = Effort(min.lvl)
                /\ min.kind = "budget" => r = Budget(min.n)
           /\ force.kind = "none" /\ b # None =>
                /\ min.kind = "budget" => r = Budget(MaxOf(b, min.n))
                /\ min.kind # "budget" => r = Budget(b)

\* a thinking budget below the minimum budget of the model was raised to it
C27_Witness ==
    /\ conv.pc = "converted"
    /\ conv.model_config.present
    /\ conv.model_config.force_reasoning.kind = "none"
    /\ conv.model_config.min_reasoning.kind = "budget"
    /\ conv.req.thinking # None
    /\ conv.req.thinking < conv.model_config.min_reasoning.n
    /\ conv.openai.reasoning = Budget(conv.model_config.min_reasoning.n)

(***************************************************************************)
(* Properties of the body sent upstream.                                   *)
(***************************************************************************)
\* the deep merge of two JSON objects: a key of both whose values are both
\* objects gets their deep merge, any other key of the second gets its
\* value, a key of the first alone keeps its value
RECURSIVE DeepMerge(_, _)
DeepMerge(base, over) ==
    [k \in (DOMAIN base) \cup (DOMAIN over) |->
        IF k \notin DOMAIN over THEN base[k]
        ELSE IF k \in DOMAIN base /\ base[k].kind = "object" /\ over[k].kind = "object"
             THEN JsonObject(DeepMerge(base[k].o, over[k].o))
             ELSE over[k]]

\* C28: the body sent upstream is the deep merge of the serialized request
\* and the extra_body of the resolved model.
C28_ExtraBodyDeepMerged ==
    prep.pc = "prepared" /\ prep.api_params.present =>
        prep.final_body = DeepMerge(prep.body, prep.api_params.extra_body)

(***************************************************************************)
(* Properties of the tool filter.                                          *)
(***************************************************************************)
\* what the filter's config says of a tool: no deny pattern matches its
\* name and, with an allow list, some allow pattern does
Permitted(name) ==
    /\ filter.config.deny.present =>
         \A k \in 1..Len(filter.config.deny.list) :
            ~PatternMatches(filter.config.deny.list[k], name)
    /\ filter.config.allow.present =>
         \E k \in 1..Len(filter.config.allow.list) :
            PatternMatches(filter.config.allow.list[k], name)

\* C29: the tools left by the filter are the permitted tools of the request
\* in their order, and the rest of the request is as it was.
C29_ToolFilterRetains ==
    filter.pc = "done" /\ filter.config.present =>
        /\ filter.req.tools.list =
              SelectSeq(filter.req_in.tools.list, LAMBDA name : Permitted(name))
        /\ filter.req.tools.present = filter.req_in.tools.present
        /\ filter.req.tool_choice = filter.req_in.tool_choice

\* a tool that an allow pattern and a deny pattern both match was removed
\* and the tool after it was kept
C29_Witness ==
    /\ filter.pc = "done"
    /\ filter.config.present
    /\ filter.config.allow.present
    /\ filter.config.deny.present
    /\ Len(filter.req_in.tools.list) = 2
    /\ SomeMatches(filter.config.allow.list, filter.req_in.tools.list[1])
    /\ SomeMatches(filter.config.deny.list, filter.req_in.tools.list[1])
    /\ filter.req.tools.list = <<filter.req_in.tools.list[2]>>

(***************************************************************************)
(* Properties of the system prompt patcher.                                *)
(***************************************************************************)
\* the buffer after the actions of a rule, taken first to last
RECURSIVE BufferAfter(_, _, _)
BufferAfter(st, actions, i) ==
    IF i > Len(actions) THEN st.current_system
    ELSE BufferAfter(ApplyAction(st, actions[i]), actions, i + 1)

\* the messages when rule i is reached: trace does not keep them, so they
\* are those left by the matching rules before it
RECURSIVE MessagesBefore(_)
MessagesBefore(i) ==
    IF i = 1 THEN patcher.req_in.messages
    ELSE LET earlier == [current_system |-> patcher.trace[i - 1].before,
                         messages |-> MessagesBefore(i - 1)]
         IN IF patcher.trace[i - 1].matched
            THEN ApplyActions(earlier, patcher.rules[i - 1].actions).messages
            ELSE earlier.messages

\* C30: every rule is matched against the buffer left by the rules before
\* it, a matching rule's actions are applied in their listed order, the
\* buffer is written back at the end (an empty one clears the system
\* prompt), and a request no rule matches keeps its system text and its
\* messages.
C30_PatcherSequentialRules ==
    patcher.pc = "done" =>
        LET rules == patcher.rules
            trace == patcher.trace
            n == Len(rules)
        IN /\ n > 0 =>
                /\ Len(trace) = n
                /\ trace[1].before = Consolidate(patcher.req_in.system)
                /\ \A i \in 1..(n - 1) : trace[i + 1].before = trace[i].after
                /\ \A i \in 1..n :
                      /\ trace[i].matched <=> AllMatched(rules[i], trace[i].before)
                      /\ trace[i].after =
                            IF trace[i].matched
                            THEN BufferAfter([current_system |-> trace[i].before,
                                              messages |-> MessagesBefore(i)],
                                             rules[i].actions, 1)
                            ELSE trace[i].before
                /\ patcher.req.system =
                      IF trace[n].after = <<>> THEN SystemNone
                      ELSE SystemString(trace[n].after)
           /\ (\A i \in 1..Len(trace) : ~trace[i].matched) =>
                /\ Consolidate(patcher.req.system) = Consolidate(patcher.req_in.system)
                /\ patcher.req.messages = patcher.req_in.messages

\* the second rule matched a buffer that the first rule's two actions had
\* made, on a request whose own system prompt it does not match
C30_Witness ==
    /\ patcher.pc = "done"
    /\ Len(patcher.rules) = 2
    /\ Len(patcher.rules[1].actions) = 2
    /\ patcher.trace[1].matched
    /\ patcher.trace[2].matched
    /\ ~AllMatched(patcher.rules[2], Consolidate(patcher.req_in.system))
    /\ patcher.req.messages # patcher.req_in.messages

(***************************************************************************)
(* Properties of the resolution of extends chains.                         *)
(***************************************************************************)
\* the model reached from key by following extends i times, None once the
\* chain has ended (no extends, or a model the table does not hold)
RECURSIVE Ancestor(_, _)
Ancestor(key, i) ==
    IF i = 0 THEN key
    ELSE LET below == Ancestor(key, i - 1)
         IN IF below \in DOMAIN loader.models THEN loader.models[below] ELSE None

Revisits(key) ==
    \E i, j \in 0..Cardinality(DOMAIN loader.models) :
        i < j /\ Ancestor(key, i) # None /\ Ancestor(key, i) = Ancestor(key, j)

\* C31: the resolution of a model takes at most one call per model of the
\* table and one more, fails with the cycle error exactly for the models
\* whose chain revisits a model, and then the whole resolution fails.
C31_ExtendsChainsResolve ==
    loader.pc = "done" =>
        \A key \in DOMAIN loader.models :
            /\ loader.resolved[key].calls <= Cardinality(DOMAIN loader.models) + 1
            /\ Revisits(key) <=> loader.resolved[key].kind = "cyclic"
            /\ Revisits(key) => loader.result # "ok"

\* two models extend the same third model and are resolved, in a table
\* where another model extends itself and the resolution fails
C31_Witness ==
    /\ loader.pc = "done"
    /\ loader.result = "cyclic"
    /\ \E a, b, c, d \in DOMAIN loader.models :
         /\ Cardinality({a, b, c, d}) = 4
         /\ loader.models[a] = c
         /\ loader.models[b] = c
         /\ loader.resolved[a].merged = <<c, a>>
         /\ loader.resolved[b].merged = <<c, b>>
         /\ loader.models[d] = d
         /\ loader.resolved[d].kind = "cyclic"

(***************************************************************************)
(* Properties of deep_merge_json.                                          *)
(***************************************************************************)
BothObjects(k) ==
    /\ k \in DOMAIN merge.base
    /\ k \in DOMAIN merge.override_map
    /\ merge.base[k].kind = "object"
    /\ merge.override_map[k].kind = "object"

\* C32: the merged map has the keys of both maps; a key of the base alone
\* keeps its value, a key that is an object in both holds the merge of the
\* two objects, and any other key of the override holds the override's
\* value.
C32_DeepMergeJson ==
    merge.pc = "returned" =>
        /\ DOMAIN merge.merged = (DOMAIN merge.base) \cup (DOMAIN merge.override_map)
        /\ \A k \in (DOMAIN merge.base) \ (DOMAIN merge.override_map) :
              merge.merged[k] = merge.base[k]
        /\ \A k \in DOMAIN merge.override_map :
              merge.merged[k] =
                 IF BothObjects(k)
                 THEN JsonObject(DeepMerge(merge.base[k].o, merge.override_map[k].o))
                 ELSE merge.override_map[k]

\* one field is an object on both sides, with a key of its own on each side
\* and an object on both sides below it, and another field is an object in
\* the base and a string in the override
C32_Witness ==
    /\ merge.pc = "returned"
    /\ BothObjects("reasoning")
    /\ DOMAIN merge.base["reasoning"].o = {"max_tokens", "exclude"}
    /\ DOMAIN merge.override_map["reasoning"].o = {"exclude"}
    /\ merge.base["reasoning"].o["exclude"] = JsonObject(<<>>)
    /\ merge.override_map["reasoning"].o["exclude"].kind = "object"
    /\ DOMAIN merge.merged["reasoning"].o["exclude"].o = {"k"}
    /\ "provider" \in DOMAIN merge.base
    /\ merge.base["provider"].kind = "object"
    /\ "provider" \in DOMAIN merge.override_map
    /\ merge.merged["provider"] = JsonLeaf("e")

(***************************************************************************)
(* Properties of the tools_reported latch.                                 *)
(***************************************************************************)
\* the latch is set once a handler has reached it, at most one report is
\* in the log and it is the report of the first handler that reached the
\* latch, and that handler is the only one that ever stands before the
\* report's lines
OneReporter ==
    latch.pc = "serving" /\ latch.tool_verbose =>
        /\ latch.tools_reported <=> latch.swapped # <<>>
        /\ Len(latch.reports) <= 1
        /\ \A i \in 1..Len(latch.reports) : latch.reports[i] = latch.swapped[1]
        /\ \A h \in Handlers :
              latch.at[h] = "reporting" =>
                  latch.swapped[1] = h /\ latch.reports = <<>>
        /\ (latch.swapped # <<>> /\ \A h \in Handlers : latch.at[h] = "returned")
              => Len(latch.reports) = 1

\* C33: with tool_verbose on and the handlers interleaved in any way,
\* tools_reported never goes back from true to false, and the report is
\* emitted by the first handler that reaches the latch and by no other.
C33_ReportedOnce ==
    /\ []OneReporter
    /\ [][latch.pc = "serving" /\ latch.tools_reported => latch'.tools_reported]_vars

\* three handlers reached the latch, the first of them emitted the report
\* after the others had passed it, and all have returned
C33_Witness ==
    /\ latch.pc = "serving"
    /\ latch.tool_verbose
    /\ Len(latch.swapped) = MaxHandlers
    /\ latch.reports = <<latch.swapped[1]>>
    /\ \A h \in Handlers : latch.at[h] = "returned"

(***************************************************************************)
(* Further properties of the streamed response.                            *)
(***************************************************************************)
\* every content_block_start has an index above those of the starts
\* before it
StartsAscend ==
    \A k, m \in Positions("content_block_start") :
        k < m => out[k].index < out[m].index

\* C34: block_index never decreases, and no content_block_start reuses the
\* index of an earlier one or an index below it.
C34_BlockIndexNeverReused ==
    /\ []StartsAscend
    /\ [][state'.block_index >= state.block_index]_vars

\* a thinking block, a tool block and a text block were started, in this
\* order, the last one two indices above the tool block
C34_Witness ==
    \E k, l, m \in Positions("content_block_start") :
        /\ k < l /\ l < m
        /\ out[k].kind = "thinking"
        /\ out[l].kind = "tool_use"
        /\ out[m].kind = "text"
        /\ out[m].index = out[l].index + 2

\* the block at the index of event j is open when j is emitted: it was
\* started before j and not stopped since
OpenAt(j) ==
    \E k \in Positions("content_block_start") :
        /\ k < j
        /\ out[k].index = out[j].index
        /\ \A m \in Positions("content_block_stop") :
              (k < m /\ m < j) => out[m].index # out[j].index

\* C35: every content_block_delta is emitted for a block that is open.
C35_DeltasInOpenBlocks ==
    \A j \in Positions("content_block_delta") : OpenAt(j)

(***************************************************************************)
(* Further properties of the upstream executor.                            *)
(***************************************************************************)
\* the POSTs of a request are at most max_retries + 1 and one more for each
\* adaptive retry, of which there is at most one; without a retry policy
\* they are at most two
PostsBounded ==
    /\ exec.context_length_retries <= 1
    /\ RetryOf(config, route).present =>
          upstream_posts <= RetryOf(config, route).max_retries + 1
                              + exec.context_length_retries
    /\ ~RetryOf(config, route).present =>
          upstream_posts <= 1 + exec.context_length_retries

\* C36: whatever the upstream answers, the executor sends at most
\* max_retries + 2 POSTs, at most 2 without a retry policy, and the request
\* is answered in the end.
C36_ExecutorTerminates ==
    /\ []PostsBounded
    /\ <>(hpc = "done")

\* a request with max_retries = 3 was answered after five POSTs: three
\* failures, a context-length 400 and a last failure
C36_Witness ==
    /\ hpc = "done"
    /\ RetryOf(config, route).present
    /\ RetryOf(config, route).max_retries = 3
    /\ upstream_posts = 5
    /\ exec.context_length_retries = 1
    /\ Len(upstream_replies) = 5
    /\ upstream_replies[1].kind = "conn"
    /\ upstream_replies[2].code = 500
    /\ LastReply.code = 503

(***************************************************************************)
(* Further properties of transform_stream.                                 *)
(***************************************************************************)
RECURSIVE Flatten(_)
Flatten(seqs) == IF seqs = <<>> THEN <<>> ELSE Head(seqs) \o Flatten(Tail(seqs))

\* the indices of the blocks open after the first j events
OpenBlocks(events, j) ==
    {events[k].index : k \in {k \in 1..j :
        /\ events[k].type = "content_block_start"
        /\ \A m \in (k + 1)..j :
              ~(events[m].type = "content_block_stop"
                /\ events[m].index = events[k].index)}}

\* every delta and every stop is for a block that is open
DeltasAndStopsInOpenBlocks(events) ==
    \A j \in 1..Len(events) :
        events[j].type \in {"content_block_delta", "content_block_stop"} =>
            events[j].index \in OpenBlocks(events, j - 1)

\* a block stream in which, besides, a block starts only when none is open
WellFormedBlocks(events) ==
    /\ DeltasAndStopsInOpenBlocks(events)
    /\ \A j \in 1..Len(events) :
          events[j].type = "content_block_start" => OpenBlocks(events, j - 1) = {}

\* C37: given a well-formed block stream, transform_stream yields every
\* content_block_delta and content_block_stop for a block it has started
\* and not yet stopped.
C37_EnforcerStreamWellFormed ==
    (enforcer.pc # "idle" /\ WellFormedBlocks(enforcer.input)) =>
        DeltasAndStopsInOpenBlocks(Flatten(enforcer.yielded))

(***************************************************************************)
(* Properties of the on_request chain.                                     *)
(***************************************************************************)
ExitTools(req) == {k \in 1..Len(req.tools.list) : req.tools.list[k] = ExitTool}

\* the exit tool is enabled and the request carries a tools list
Enforced ==
    chain.pc = "converting" /\ chain.enable_exit_tool /\ chain.req_in.tools.present

\* C38 as stated: after the on_request hooks the tools list holds exactly
\* one tool named ExitTool, whatever the filter's config, and a second run
\* of the enforcer's on_request adds none.
C38_ExactlyOneExitTool ==
    Enforced =>
        /\ Cardinality(ExitTools(chain.req)) = 1
        /\ EnforcerOnRequest(chain.req) = chain.req

\* C38 as amended: after the on_request hooks the tools list holds a tool
\* named ExitTool, whatever the filter's config, and exactly one unless the
\* filter left in the list more than one that the request came with; a
\* second run of the enforcer's on_request changes nothing.
C38_ExitToolKept ==
    Enforced =>
        LET filtered == ChainFilter(chain.req_in, chain.tool_filters)
        IN /\ chain.req.tools.present
           /\ Cardinality(ExitTools(chain.req)) >= 1
           /\ Cardinality(ExitTools(chain.req)) =
                 IF Cardinality(ExitTools(filtered)) >= 1
                 THEN Cardinality(ExitTools(filtered)) ELSE 1
           /\ Cardinality(ExitTools(chain.req_in)) <= 1 =>
                 Cardinality(ExitTools(chain.req)) = 1
           /\ EnforcerOnRequest(chain.req) = chain.req

\* the request came with ExitTool and another tool, the filter's deny list
\* matched them both, and the list left holds ExitTool alone
C38_Witness ==
    /\ Enforced
    /\ chain.tool_filters.present
    /\ chain.tool_filters.deny.present
    /\ chain.req_in.tools.list = <<ExitTool, "t">>
    /\ \A k \in 1..2 :
          SomeMatches(chain.tool_filters.deny.list, Spelling[chain.req_in.tools.list[k]])
    /\ chain.req.tools.list = <<ExitTool>>

(***************************************************************************)
(* Properties of record_stream.                                            *)
(***************************************************************************)
\* a message_stop was polled after a message_start
StopAfterStart ==
    \E j, k \in 1..recorder.polled :
        /\ j < k
        /\ recorder.input_stream[j].ok
        /\ recorder.input_stream[j].type = "message_start"
        /\ recorder.input_stream[k].ok
        /\ recorder.input_stream[k].type = "message_stop"

\* C39: record_stream yields the items of its input, errors too, unchanged
\* and in order, and calls the callback at most once, only when a
\* message_stop came after a message_start, so never for a stream that ends
\* with no message_stop.
C39_RecordStreamTransparent ==
    recorder.pc # "idle" =>
        /\ recorder.yielded = SubSeq(recorder.input_stream, 1, recorder.polled)
        /\ recorder.pc = "done" => recorder.yielded = recorder.input_stream
        /\ Len(recorder.calls) <= 1
        /\ recorder.calls # <<>> => StopAfterStart
        /\ (/\ recorder.pc = "done"
            /\ \A k \in 1..Len(recorder.input_stream) :
                  recorder.input_stream[k].type # "message_stop")
           => recorder.calls = <<>>

\* a stream with an error after message_start and two message_stop went
\* through whole, and the callback was called at the first message_stop only
C39_Witness ==
    /\ recorder.pc = "done"
    /\ Len(recorder.input_stream) = 4
    /\ recorder.input_stream[1].type = "message_start"
    /\ recorder.input_stream[2] = StreamError
    /\ recorder.input_stream[3].type = "message_stop"
    /\ recorder.input_stream[4].type = "message_stop"
    /\ recorder.yielded = recorder.input_stream
    /\ Len(recorder.calls) = 1

====
